---- MODULE Spec2Model ----
(***************************************************************************)
(* Verification model of the Smart Schedule bot: the schedule extraction   *)
(* pipeline (backend/src/utils/nlp_parser.py) and the Slack confirmation   *)
(* flow around the module-level schedule_cache (handlers/slack_handler.py).*)
(*                                                                         *)
(* Time is an integer number of minutes since 00:00 of day 0 in the fixed  *)
(* zone Asia/Tokyo (no daylight saving).  Seconds are not represented: the *)
(* code only ever reads the hour and the minute of datetime.now().         *)
(***************************************************************************)
EXTENDS Integers, Sequences, FiniteSets, Bags, TLC

VARIABLES
    fx_now,        \* datetime.now(tz) read by ensure_valid_schedule
    fx_in,         \* the schedule_info dict handed to ensure_valid_schedule
    fx_out,        \* the dict it returns
    fx_pc,         \* "start", "backend", "archive" or "backend_twice"
    p_now,         \* datetime.now(tz) during one run of the pipeline
    p_configured,  \* OPENAI_AVAILABLE and OPENAI_API_KEY
    p_entry,       \* the entry point called: "text" or "user"
    p_raw,         \* the JSON object the model answers with
    p_rule,        \* what rule_based_parser returns for the text
    p_llm,         \* the pair analyze_conversation_with_openai returned
    p_result,      \* the dict the pipeline returns
    p_path,        \* the return statement taken: "normalized", "as_is", "rule"
    p_rule_calls,  \* number of calls of rule_based_parser
    p_pc,          \* "start", "analyzed", "fallback", "done"
    schedule_cache, \* the module-level dict of slack_handler.py
    pc,            \* where each process_interactive_action thread stands
    act,           \* the action_id each thread was started with
    cache_key,     \* the local cache_key of each thread
    info,          \* the local schedule_info of each thread
    has_conflict,  \* what check_schedule_conflicts returned to each thread
    msg,           \* the message last handed to chat_postEphemeral
    calendar,      \* the bag of events inserted into the user's calendar
    started,       \* number of interactive actions dispatched so far
    plans,         \* number of /plan commands processed so far
    c_op,          \* the calendar function called: "check" or "create"
    c_creds,       \* the user's stored Google credentials
    c_listing,     \* what service.events().list(...).execute() does
    c_attempts,    \* the outcomes of the insert calls made so far
    c_result,      \* the pair the function returns
    c_pc,          \* "start", "running" or "returned"
    sl_variant,    \* find_next_available_time of "backend" or of "utils"
    sl_start,      \* its argument start_time
    sl_duration,   \* its argument duration_minutes
    sl_events,     \* the events of the calendar, by day
    sl_day,        \* its local current_day
    sl_queries,    \* the days it has listed the events of
    sl_result,     \* what it returns
    sl_pc,         \* "start", "loop" or "returned"
    e_entry,       \* the parser entry point called, see Entries
    e_configured,  \* OPENAI_API_KEY (and OPENAI_AVAILABLE) is set
    e_now,         \* datetime.now(tz) during the call
    e_raw,         \* the JSON object the model answers with, or NoAnswer
    e_rule,        \* what the rule-based parser does with the text
    e_llm,         \* the pair analyze_conversation_with_openai returned
    e_result,      \* the dict the entry point returned
    e_raised,      \* the exceptions raised so far, by the function raising
    e_rule_calls,  \* number of calls of the rule-based parser
    e_outcome,     \* "pending", "value", "none" or "exception"
    e_msg,         \* the message the handler posts
    e_pc,          \* "start", "analyzed", "fallback", "except", "returned"
    r_variant,     \* the rule-based parser called, see RuleVariants
    r_now,         \* datetime.now(tz) during the call
    r_sig,         \* what the patterns of the parser match in the text
    r_result,      \* the dict the parser returns
    r_msg,         \* what process_plan_command does with it
    r_pc,          \* "start", "parsed" or "handled"
    tk_variant,    \* get_credentials_from_user of "backend" or of "utils"
    tk_pc,         \* where each thread stands in get_credentials_from_user
    tk_local,      \* the access token of each thread's Credentials object
    tk_stored,     \* the access token stored for the user
    tk_issued,     \* the access token the token endpoint issued last
    rl_variant,    \* approve_event of "src_app" or of "app"
    rl_redis,      \* app.redis_client is set
    rl_event,      \* the schedule_info stored under event:<event_id>
    rl_stored,     \* the key event:<event_id> exists
    rl_deleted,    \* an approve or a deny has deleted the key
    rl_calendar,   \* the event bodies inserted into the calendar
    rl_requests,   \* number of approve and deny requests handled
    rl_status      \* the HTTP status of the last response

fixVars == <<fx_now, fx_in, fx_out, fx_pc>>

pipeVars == <<p_now, p_configured, p_entry, p_raw, p_rule, p_llm, p_result,
              p_path, p_rule_calls, p_pc>>

flowVars == <<schedule_cache, pc, act, cache_key, info, has_conflict, msg,
              calendar, started, plans>>

calVars == <<c_op, c_creds, c_listing, c_attempts, c_result, c_pc>>

slotVars == <<sl_variant, sl_start, sl_duration, sl_events, sl_day,
              sl_queries, sl_result, sl_pc>>

errVars == <<e_entry, e_configured, e_now, e_raw, e_rule, e_llm, e_result,
             e_raised, e_rule_calls, e_outcome, e_msg, e_pc>>

ruleVars == <<r_variant, r_now, r_sig, r_result, r_msg, r_pc>>

tokVars == <<tk_variant, tk_pc, tk_local, tk_stored, tk_issued>>

relayVars == <<rl_variant, rl_redis, rl_event, rl_stored, rl_deleted,
               rl_calendar, rl_requests, rl_status>>

vars == <<fx_now, fx_in, fx_out, fx_pc,
          p_now, p_configured, p_entry, p_raw, p_rule, p_llm, p_result,
          p_path, p_rule_calls, p_pc,
          schedule_cache, pc, act, cache_key, info, has_conflict, msg,
          calendar, started, plans,
          c_op, c_creds, c_listing, c_attempts, c_result, c_pc,
          sl_variant, sl_start, sl_duration, sl_events, sl_day,
          sl_queries, sl_result, sl_pc,
          e_entry, e_configured, e_now, e_raw, e_rule, e_llm, e_result,
          e_raised, e_rule_calls, e_outcome, e_msg, e_pc,
          r_variant, r_now, r_sig, r_result, r_msg, r_pc,
          tk_variant, tk_pc, tk_local, tk_stored, tk_issued,
          rl_variant, rl_redis, rl_event, rl_stored, rl_deleted,
          rl_calendar, rl_requests, rl_status>>

----------------------------------------------------------------------------
(* Bounds of the model *)

\* start/end dates are drawn from Today - MaxDayOffset .. Today + MaxDayOffset
MaxDayOffset == 1

\* concurrent process_interactive_action threads
NumThreads == 2

\* interactive actions (button presses) dispatched in one behaviour
MaxActions == 2

\* /plan commands processed in one behaviour
MaxPlans == 2

----------------------------------------------------------------------------
(* Time arithmetic: datetime, date(), hour, minute, timedelta *)

MinPerHour == 60
MinPerDay == 24 * MinPerHour

\* a key that is missing from the dict
Absent == 0 - 1

Max(a, b) == IF a >= b THEN a ELSE b

DateOf(t) == t \div MinPerDay
HourOf(t) == (t % MinPerDay) \div MinPerHour
MinuteOf(t) == t % MinPerHour
At(d, h, m) == d * MinPerDay + h * MinPerHour + m

\* a year of the model's calendar; 29 February is not represented
DaysPerYear == 365

\* the day on which the model's clock stands: day 70 of year 2
Today == 2 * DaysPerYear + 70

HourSamples == {0, 9, 10, 17, 23}
MinuteSamples == {0, 30, 45}
ClockSamples == { h * MinPerHour + m : h \in HourSamples, m \in MinuteSamples }
DaySamples == (Today - MaxDayOffset) .. (Today + MaxDayOffset)
NowSamples == { Today * MinPerDay + c : c \in ClockSamples }
TimeSamples == { d * MinPerDay + c : d \in DaySamples, c \in ClockSamples }

----------------------------------------------------------------------------
(* ensure_valid_schedule, the pipeline's validate_and_fix *)

DefaultTitle == "yotei"

\* the empty dict {}: every key is missing
EmptyDict ==
    [title |-> "", start |-> Absent, end |-> Absent, is_all_day |-> FALSE,
     desc_len |-> 0, confidence |-> Absent]

MaxDescription == 1000

\* the next half-hour boundary after now, or 10:00 tomorrow outside 09-18
DefaultStart(now) ==
    LET half == IF MinuteOf(now) < 30
                THEN At(DateOf(now), HourOf(now), 30)
                ELSE At(DateOf(now + MinPerHour), HourOf(now + MinPerHour), 0)
    IN  IF HourOf(half) < 9 \/ HourOf(half) >= 18
        THEN At(DateOf(now) + 1, 10, 0)
        ELSE half

\* variant of PastShift: one hour, or one day, whatever the distance to now
PastShiftOneStep(start, now) ==
    IF DateOf(start) = DateOf(now) THEN MinPerHour ELSE MinPerDay

\* the shift applied to a start that lies in the past
PastShift(start, now) ==
    IF DateOf(start) = DateOf(now)
    THEN Max(1, HourOf(now) - HourOf(start) + 1) * MinPerHour
    ELSE (DateOf(now) - DateOf(start) + 1) * MinPerDay

FixTitle(si) == IF si.title = "" THEN [si EXCEPT !.title = DefaultTitle] ELSE si

FixStart(si, now) ==
    IF si.start = Absent THEN [si EXCEPT !.start = DefaultStart(now)] ELSE si

FixEnd(si) ==
    IF si.end = Absent THEN [si EXCEPT !.end = si.start + MinPerHour] ELSE si

FixPast(si, now) ==
    IF si.start < now
    THEN [si EXCEPT !.start = @ + PastShift(si.start, now),
                    !.end = @ + PastShift(si.start, now)]
    ELSE si

FixOrder(si) ==
    IF ~si.is_all_day /\ si.start >= si.end
    THEN [si EXCEPT !.end = si.start + MinPerHour]
    ELSE si

FixDescription(si) ==
    IF si.desc_len > MaxDescription
    THEN [si EXCEPT !.desc_len = MaxDescription]
    ELSE si

ensure_valid_schedule(si, now) ==
    FixDescription(FixOrder(FixPast(FixEnd(FixStart(FixTitle(si), now)), now)))

\* archive/message_parser.py: the order fix ignores is_all_day, the
\* description is left alone
ArchiveFixOrder(si) ==
    IF si.start >= si.end
    THEN [si EXCEPT !.end = si.start + MinPerHour]
    ELSE si

archive_ensure_valid_schedule(si, now) ==
    ArchiveFixOrder(FixPast(FixEnd(FixStart(FixTitle(si), now)), now))

----------------------------------------------------------------------------
(* The LLM extractor: analyze_conversation_with_openai and its helpers *)

\* a date or time string that strptime rejects
Malformed == 0 - 2

\* Confidence is counted in thousandths.  The penalty is computed in IEEE
\* doubles: for two-decimal confidences the only result that falls on the
\* other side of a threshold than the exact difference is
\* 0.7 - 0.3 = 0.39999999999999997.
FloatSub(c, p) == IF c = 700 /\ p = 300 THEN 399 ELSE c - p

MissingFields(raw) ==
    (IF raw.title = "" THEN 1 ELSE 0) + (IF raw.date = Absent THEN 1 ELSE 0)
        + (IF raw.start_time = Absent THEN 1 ELSE 0)

PenalizedConfidence(raw) ==
    IF MissingFields(raw) > 0
    THEN Max(100, FloatSub(raw.confidence, 300 * MissingFields(raw)))
    ELSE raw.confidence

\* duration by keyword of the title when the answer has no end_time
KeywordDuration(title) ==
    CASE title = "kaigi" -> MinPerHour
      [] title = "lunch" -> 90
      [] title = "seminar" -> 3 * MinPerHour
      [] OTHER -> MinPerHour

ConvertDate(raw, now) ==
    IF raw.date \in {Absent, Malformed} THEN DateOf(now) + 1 ELSE raw.date

ConvertStart(raw, now) ==
    LET d == ConvertDate(raw, now)
    IN  CASE raw.start_time = Malformed -> At(d, 10, 0)
          [] raw.start_time = Absent ->
                 IF raw.all_day THEN At(d, 0, 0) ELSE At(d, 10, 0)
          [] OTHER -> d * MinPerDay + raw.start_time

ConvertEnd(raw, now) ==
    LET d == ConvertDate(raw, now)
        s == ConvertStart(raw, now)
        e == d * MinPerDay + raw.end_time
    IN  CASE raw.end_time = Malformed -> s + MinPerHour
          [] raw.end_time = Absent ->
                 IF raw.all_day THEN s + MinPerDay
                 ELSE s + KeywordDuration(raw.title)
          [] OTHER -> IF e <= s THEN e + MinPerDay ELSE e

convert_openai_result_to_schedule(raw, now) ==
    [title |-> raw.title,
     start |-> ConvertStart(raw, now),
     end |-> ConvertEnd(raw, now),
     is_all_day |-> raw.all_day,
     desc_len |-> raw.desc_len,
     confidence |-> raw.confidence]

\* start.replace(year=now.year + 1).date()
SameDayNextYear(start, now) ==
    ((DateOf(now) \div DaysPerYear) + 1) * DaysPerYear
        + (DateOf(start) % DaysPerYear)

DaysToAdd(start, now) ==
    IF DateOf(start) = DateOf(now)
    THEN 1
    ELSE IF SameDayNextYear(start, now) - DateOf(now) < 0
         THEN 1
         ELSE SameDayNextYear(start, now) - DateOf(now)

ValidatePast(si, now) ==
    IF si.start < now
    THEN [si EXCEPT !.start = @ + DaysToAdd(si.start, now) * MinPerDay,
                    !.end = @ + DaysToAdd(si.start, now) * MinPerDay]
    ELSE si

ValidateAllDay(si) ==
    IF si.is_all_day
    THEN [si EXCEPT !.start = At(DateOf(si.start), 0, 0),
                    !.end = At(DateOf(si.start), 0, 0) + MinPerDay]
    ELSE si

validate_schedule_info(si, now) ==
    ValidateAllDay(FixOrder(ValidatePast(FixTitle(si), now)))

analyze_conversation_with_openai(raw, now) ==
    IF ~raw.api_ok
    THEN [info |-> EmptyDict, confidence |-> 0]
    ELSE IF PenalizedConfidence(raw) < 400
         THEN [info |-> EmptyDict, confidence |-> PenalizedConfidence(raw)]
         ELSE [info |-> validate_schedule_info(
                            convert_openai_result_to_schedule(raw, now), now),
               confidence |-> PenalizedConfidence(raw)]

is_valid_schedule_info(si) ==
    /\ si # EmptyDict
    /\ si.title # ""
    /\ si.start # Absent
    /\ si.end # Absent
    /\ ~(~si.is_all_day /\ si.start >= si.end)

\* variant of RouteDecision: a confidence of exactly 0.4 is not accepted
RouteDecisionStrict(confidence, si) ==
    IF confidence > 400 THEN "normalized"
    ELSE IF confidence >= 300 /\ is_valid_schedule_info(si) THEN "as_is"
    ELSE "fallback"

\* the branch of parse_schedule_from_text / parse_user_input_for_scheduling
RouteDecision(confidence, si) ==
    IF confidence >= 400 THEN "normalized"
    ELSE IF confidence >= 300 /\ is_valid_schedule_info(si) THEN "as_is"
    ELSE "fallback"

----------------------------------------------------------------------------
(* Specification SpecPipe: one run of the extraction pipeline *)

ConfidenceSamples == {0, 290, 300, 350, 390, 400, 700, 1000}

RawSamples ==
    { [api_ok |-> TRUE, confidence |-> c, title |-> ti, date |-> d,
       start_time |-> st, end_time |-> et, all_day |-> a, desc_len |-> 0] :
          c \in ConfidenceSamples, ti \in {"", "kaigi", "seminar"},
          d \in {Absent, Malformed} \cup DaySamples,
          st \in {Absent, Malformed, 9 * MinPerHour, 23 * MinPerHour},
          et \in {Absent, MinPerHour, 10 * MinPerHour},
          a \in BOOLEAN }

\* a transport or API error: there is no answer
NoAnswer ==
    [api_ok |-> FALSE, confidence |-> 0, title |-> "", date |-> Absent,
     start_time |-> Absent, end_time |-> Absent, all_day |-> FALSE,
     desc_len |-> 0]

PipeNowSamples ==
    { At(Today, 0, 30), At(Today, 10, 0), At(Today, 23, 45) }

\* results of rule_based_parser: tomorrow 15:00-16:00 or tomorrow 10:00-11:00
RuleSamples ==
    { [title |-> "kaigi", start |-> At(Today + 1, 15, 0),
       end |-> At(Today + 1, 16, 0), is_all_day |-> FALSE, desc_len |-> 0,
       confidence |-> 800],
      [title |-> DefaultTitle, start |-> At(Today + 1, 10, 0),
       end |-> At(Today + 1, 11, 0), is_all_day |-> FALSE, desc_len |-> 0,
       confidence |-> 300] }

\* the threads slack_interactive has started and that have not returned
Threads == 1 .. NumThreads

\* no dict: what schedule_cache.get returns for a missing key
NoInfo ==
    [req |-> 0, title |-> "", start |-> Absent, end |-> Absent,
     confidence |-> Absent]

\* schedule_cache = {}
EmptyCache == [k \in {} |-> NoInfo]

\* the variables of a specification that is not running
FlowIdle ==
    /\ schedule_cache = EmptyCache
    /\ pc = [t \in Threads |-> "off"]
    /\ act = [t \in Threads |-> "none"]
    /\ cache_key = [t \in Threads |-> "none"]
    /\ info = [t \in Threads |-> NoInfo]
    /\ has_conflict = [t \in Threads |-> "none"]
    /\ msg = "none"
    /\ calendar = EmptyBag
    /\ started = 0
    /\ plans = 0

CalIdle ==
    /\ c_op = "none"
    /\ c_creds = "none"
    /\ c_listing = "none"
    /\ c_attempts = <<>>
    /\ c_result = [result |-> "none"]
    /\ c_pc = "idle"

SlotIdle ==
    /\ sl_variant = "none"
    /\ sl_start = 0
    /\ sl_duration = 0
    /\ sl_events = <<>>
    /\ sl_day = 0
    /\ sl_queries = <<>>
    /\ sl_result = Absent
    /\ sl_pc = "idle"

ErrIdle ==
    /\ e_entry = "none"
    /\ e_configured = FALSE
    /\ e_now = Today * MinPerDay
    /\ e_raw = NoAnswer
    /\ e_rule = EmptyDict
    /\ e_llm = [info |-> EmptyDict, confidence |-> 0]
    /\ e_result = EmptyDict
    /\ e_raised = <<>>
    /\ e_rule_calls = 0
    /\ e_outcome = "pending"
    /\ e_msg = "none"
    /\ e_pc = "idle"

TokIdle ==
    /\ tk_variant = "none"
    /\ tk_pc = [t \in Threads |-> "off"]
    /\ tk_local = [t \in Threads |-> 0]
    /\ tk_stored = 0
    /\ tk_issued = 0

RelayIdle ==
    /\ rl_variant = "none"
    /\ rl_redis = FALSE
    /\ rl_event = EmptyDict
    /\ rl_stored = FALSE
    /\ rl_deleted = FALSE
    /\ rl_calendar = <<>>
    /\ rl_requests = 0
    /\ rl_status = 0

\* nothing matched in an empty text
NoSignals ==
    [title |-> "none", date |-> FALSE, times |-> <<>>, duration |-> FALSE,
     location |-> "none", all_day |-> FALSE]

RuleIdle ==
    /\ r_variant = "none"
    /\ r_now = Today * MinPerDay
    /\ r_sig = NoSignals
    /\ r_result = EmptyDict
    /\ r_msg = "none"
    /\ r_pc = "idle"

FixIdle ==
    /\ fx_now = Today * MinPerDay
    /\ fx_in = EmptyDict
    /\ fx_out = EmptyDict
    /\ fx_pc = "idle"

PipeIdle ==
    /\ p_now = Today * MinPerDay
    /\ p_configured = FALSE
    /\ p_entry = "text"
    /\ p_raw = NoAnswer
    /\ p_rule = EmptyDict
    /\ p_llm = [info |-> EmptyDict, confidence |-> 0]
    /\ p_result = EmptyDict
    /\ p_path = "none"
    /\ p_rule_calls = 0
    /\ p_pc = "idle"

InitPipe ==
    /\ p_now \in PipeNowSamples
    /\ p_entry \in {"text", "user"}
    /\ p_rule \in RuleSamples
    /\ \/ p_configured = TRUE /\ p_raw \in RawSamples \cup {NoAnswer}
       \/ p_configured = FALSE /\ p_raw = NoAnswer
    /\ p_llm = [info |-> EmptyDict, confidence |-> 0]
    /\ p_result = EmptyDict
    /\ p_path = "none"
    /\ p_rule_calls = 0
    /\ p_pc = "start"
    /\ FixIdle
    /\ FlowIdle
    /\ CalIdle
    /\ SlotIdle
    /\ ErrIdle
    /\ RuleIdle
    /\ TokIdle
    /\ RelayIdle

\* the call of analyze_conversation_with_openai returns
Analyze ==
    /\ p_pc = "start"
    /\ p_configured
    /\ p_llm' = analyze_conversation_with_openai(p_raw, p_now)
    /\ p_pc' = "analyzed"
    /\ UNCHANGED <<p_now, p_configured, p_entry, p_raw, p_rule, p_result,
                   p_path, p_rule_calls>>
    /\ UNCHANGED fixVars
    /\ UNCHANGED <<flowVars, calVars, slotVars, errVars, ruleVars,
                 tokVars, relayVars>>

\* no LLM backend: straight to the rule-based parser
SkipOpenAI ==
    /\ p_pc = "start"
    /\ ~p_configured
    /\ p_pc' = "fallback"
    /\ UNCHANGED <<p_now, p_configured, p_entry, p_raw, p_rule, p_llm,
                   p_result, p_path, p_rule_calls>>
    /\ UNCHANGED fixVars
    /\ UNCHANGED <<flowVars, calVars, slotVars, errVars, ruleVars,
                 tokVars, relayVars>>

Route ==
    /\ p_pc = "analyzed"
    /\ LET branch == RouteDecision(p_llm.confidence, p_llm.info)
       IN  CASE branch = "normalized" ->
                   /\ p_result' = ensure_valid_schedule(p_llm.info, p_now)
                   /\ p_path' = "normalized"
                   /\ p_pc' = "done"
             [] branch = "as_is" ->
                   /\ p_result' = p_llm.info
                   /\ p_path' = "as_is"
                   /\ p_pc' = "done"
             [] OTHER ->
                   /\ p_pc' = "fallback"
                   /\ UNCHANGED <<p_result, p_path>>
    /\ UNCHANGED <<p_now, p_configured, p_entry, p_raw, p_rule, p_llm,
                   p_rule_calls>>
    /\ UNCHANGED fixVars
    /\ UNCHANGED <<flowVars, calVars, slotVars, errVars, ruleVars,
                 tokVars, relayVars>>

\* parse_schedule_from_text after the call of the extractor
RouteText == p_entry = "text" /\ Route

\* parse_user_input_for_scheduling after the call of the extractor
RouteUser == p_entry = "user" /\ Route

\* return rule_based_parser(text)
RuleBased ==
    /\ p_pc = "fallback"
    /\ p_result' = p_rule
    /\ p_path' = "rule"
    /\ p_rule_calls' = p_rule_calls + 1
    /\ p_pc' = "done"
    /\ UNCHANGED <<p_now, p_configured, p_entry, p_raw, p_rule, p_llm>>
    /\ UNCHANGED fixVars
    /\ UNCHANGED <<flowVars, calVars, slotVars, errVars, ruleVars,
                 tokVars, relayVars>>

NextPipe == Analyze \/ SkipOpenAI \/ RouteText \/ RouteUser \/ RuleBased

SpecPipe == InitPipe /\ [][NextPipe]_vars

----------------------------------------------------------------------------
(* Specification SpecFix: ensure_valid_schedule applied to any candidate *)

\* an end relative to the start it comes with: before, equal, after, a day
EndOffsets == {0 - MinPerHour, 0, MinPerHour, MinPerDay}

EndSamples(s) ==
    IF s = Absent
    THEN {Absent, Today * MinPerDay + 10 * MinPerHour}
    ELSE {Absent} \cup { s + o : o \in EndOffsets }

FixInputs ==
    UNION { { [title |-> ti, start |-> s, end |-> e, is_all_day |-> a,
               desc_len |-> d, confidence |-> 800] :
                 ti \in {"", "kaigi"}, e \in EndSamples(s), a \in BOOLEAN,
                 d \in {0, MaxDescription + 1} } :
            s \in {Absent} \cup TimeSamples }

InitFix ==
    /\ fx_now \in NowSamples
    /\ fx_in \in FixInputs
    /\ fx_out = fx_in
    /\ fx_pc = "start"
    /\ PipeIdle
    /\ FlowIdle
    /\ CalIdle
    /\ SlotIdle
    /\ ErrIdle
    /\ RuleIdle
    /\ TokIdle
    /\ RelayIdle

ValidateBackend ==
    /\ fx_pc = "start"
    /\ fx_out' = ensure_valid_schedule(fx_in, fx_now)
    /\ fx_pc' = "backend"
    /\ UNCHANGED <<fx_now, fx_in>>
    /\ UNCHANGED pipeVars
    /\ UNCHANGED <<flowVars, calVars, slotVars, errVars, ruleVars,
                 tokVars, relayVars>>

ValidateArchive ==
    /\ fx_pc = "start"
    /\ fx_out' = archive_ensure_valid_schedule(fx_in, fx_now)
    /\ fx_pc' = "archive"
    /\ UNCHANGED <<fx_now, fx_in>>
    /\ UNCHANGED pipeVars
    /\ UNCHANGED <<flowVars, calVars, slotVars, errVars, ruleVars,
                 tokVars, relayVars>>

\* ensure_valid_schedule is called on the dict it has returned
ValidateAgain ==
    /\ fx_pc = "backend"
    /\ fx_out' = ensure_valid_schedule(fx_out, fx_now)
    /\ fx_pc' = "backend_twice"
    /\ UNCHANGED <<fx_now, fx_in>>
    /\ UNCHANGED pipeVars
    /\ UNCHANGED <<flowVars, calVars, slotVars, errVars, ruleVars,
                 tokVars, relayVars>>

NextFix == ValidateBackend \/ ValidateArchive \/ ValidateAgain

SpecFix == InitFix /\ [][NextFix]_vars

----------------------------------------------------------------------------
(* Specification SpecFlow: the Slack confirmation flow,                    *)
(* handlers/slack_handler.py                                               *)

\* the two keys of schedule_cache for the one (user, channel) of the model:
\* f"{user_id}_{channel_id}" and f"{user_id}_{channel_id}_alternative"
MainKey == "u_c"
AlternativeKey == "u_c_alternative"

\* schedule_cache[k] = v
CachePut(cache, k, v) ==
    [x \in (DOMAIN cache) \cup {k} |-> IF x = k THEN v ELSE cache[x]]

\* if k in schedule_cache: del schedule_cache[k]
CacheDel(cache, k) == [x \in (DOMAIN cache) \ {k} |-> cache[x]]

\* the two deletions that clear a session
ClearEntries(cache) == CacheDel(CacheDel(cache, MainKey), AlternativeKey)

\* variant of CacheKeyOf: every action reads the (user, channel) key
CacheKeyOfMain(action_id) == MainKey

\* the cache_key each action_id looks its schedule_info up under
CacheKeyOf(action_id) ==
    IF action_id = "use_alternative_time" THEN AlternativeKey ELSE MainKey

\* variant of LookupBranch: the result of the lookup is not tested
LookupBranchUnguarded(action_id, found) ==
    IF action_id = "confirm_schedule" THEN "check" ELSE "register"

\* where a handler goes after schedule_cache.get(cache_key)
LookupBranch(action_id, found) ==
    IF ~found THEN "idle"
    ELSE IF action_id = "confirm_schedule" THEN "check"
    ELSE "register"

\* the message posted when the lookup finds nothing
NotFoundMessage(action_id) ==
    IF action_id = "use_alternative_time" THEN "alt_not_found" ELSE "not_found"

\* if isinstance(has_conflict, bool) and has_conflict: ... return
ConflictBranch(result) == IF result = "true" THEN "find_next" ELSE "register"

\* alternative_schedule: a copy of schedule_info moved to next_available
AlternativeSchedule(si, next_start) ==
    [si EXCEPT !.start = next_start, !.end = next_start + (si.end - si.start)]

\* variant of register_cache_effect: the session is cleared on failure too
register_cache_effect_always(cache, success) == ClearEntries(cache)

\* register_calendar_event: the cache after create_calendar_event returned
\* success (and the confirmation was posted) or failure
register_cache_effect(cache, success) ==
    IF success THEN ClearEntries(cache) ELSE cache

\* variant of Detected: candidates of confidence 0.3 pass the gate
DetectedLow(si) == si.confidence >= 300 /\ si.start # Absent

\* process_plan_command: the gate in front of show_schedule_confirmation
Detected(si) == si.confidence >= 500 /\ si.start # Absent

\* candidates parse_schedule_from_text hands to process_plan_command
PlanSamples ==
    { [req |-> 0, title |-> "kaigi", start |-> At(Today + 1, 15, 0),
       end |-> At(Today + 1, 16, 0), confidence |-> 800],
      [req |-> 0, title |-> "lunch", start |-> At(Today + 1, 12, 0),
       end |-> At(Today + 1, 13, 30), confidence |-> 500],
      [req |-> 0, title |-> DefaultTitle, start |-> At(Today + 1, 10, 0),
       end |-> At(Today + 1, 11, 0), confidence |-> 300],
      [req |-> 0, title |-> "kaigi", start |-> Absent, end |-> Absent,
       confidence |-> 600] }

\* history: the dict object a /plan request produced, told apart from the
\* dicts of other requests by the number of the request
Request(si, n) == [si EXCEPT !.req = n]

\* what find_next_available_time returns: None or the start of a free slot
NoSlot == Absent
SlotSamples == { At(Today + 1, 17, 0) }

InitFlow ==
    /\ schedule_cache = EmptyCache
    /\ pc = [t \in Threads |-> "idle"]
    /\ act = [t \in Threads |-> "none"]
    /\ cache_key = [t \in Threads |-> "none"]
    /\ info = [t \in Threads |-> NoInfo]
    /\ has_conflict = [t \in Threads |-> "none"]
    /\ msg = "none"
    /\ calendar = EmptyBag
    /\ started = 0
    /\ plans = 0
    /\ FixIdle
    /\ PipeIdle
    /\ CalIdle
    /\ SlotIdle
    /\ ErrIdle
    /\ RuleIdle
    /\ TokIdle
    /\ RelayIdle

\* slack_interactive starts a new thread for every action; the model numbers
\* the live threads and gives a new one the lowest free number
FreeThread(t) ==
    /\ pc[t] = "idle"
    /\ \A u \in Threads : pc[u] = "idle" => t <= u

\* a thread returns: its locals are gone
Return(t, m) ==
    /\ pc' = [pc EXCEPT ![t] = "idle"]
    /\ act' = [act EXCEPT ![t] = "none"]
    /\ cache_key' = [cache_key EXCEPT ![t] = "none"]
    /\ info' = [info EXCEPT ![t] = NoInfo]
    /\ has_conflict' = [has_conflict EXCEPT ![t] = "none"]
    /\ msg' = m

\* process_plan_command for a linked user: the text is parsed first, then the
\* recent conversation; show_schedule_confirmation caches what was detected.
\* from_text = NoInfo: the command has no text; from_history = NoInfo: the
\* channel has no recent messages
PlanCommand(from_text, from_history) ==
    /\ plans < MaxPlans
    /\ plans' = plans + 1
    /\ LET show(si) ==
               /\ schedule_cache' =
                      CachePut(schedule_cache, MainKey, Request(si, plans + 1))
               /\ msg' = "confirm"
           silent(m) ==
               /\ msg' = m
               /\ UNCHANGED schedule_cache
       IN  IF from_text # NoInfo /\ Detected(from_text) THEN show(from_text)
           ELSE IF from_history = NoInfo THEN silent("no_history")
           ELSE IF Detected(from_history) THEN show(from_history)
           ELSE silent("not_detected")
    /\ UNCHANGED <<pc, act, cache_key, info, has_conflict, calendar, started>>
    /\ UNCHANGED <<fixVars, pipeVars, calVars, slotVars, errVars, ruleVars,
                 tokVars, relayVars>>

\* process_interactive_action for confirm_schedule, force_schedule and
\* use_alternative_time, up to schedule_cache.get(cache_key)
Lookup(t, action_id) ==
    /\ FreeThread(t)
    /\ started < MaxActions
    /\ started' = started + 1
    /\ LET key == CacheKeyOf(action_id)
           found == key \in DOMAIN schedule_cache
           branch == LookupBranch(action_id, found)
       IN  IF branch = "idle"
           THEN Return(t, NotFoundMessage(action_id))
           ELSE /\ pc' = [pc EXCEPT ![t] = branch]
                /\ act' = [act EXCEPT ![t] = action_id]
                /\ cache_key' = [cache_key EXCEPT ![t] = key]
                /\ info' = [info EXCEPT ![t] =
                               IF found THEN schedule_cache[key] ELSE NoInfo]
                /\ has_conflict' = [has_conflict EXCEPT ![t] = "none"]
                /\ UNCHANGED msg
    /\ UNCHANGED <<schedule_cache, calendar, plans>>
    /\ UNCHANGED <<fixVars, pipeVars, calVars, slotVars, errVars, ruleVars,
                 tokVars, relayVars>>

\* if action_id == 'confirm_schedule'
Confirm(t) == pc[t] = "idle" /\ Lookup(t, "confirm_schedule")

\* elif action_id == 'force_schedule'
Force(t) == pc[t] = "idle" /\ Lookup(t, "force_schedule")

\* elif action_id == 'use_alternative_time'
UseAlternative(t) == pc[t] = "idle" /\ Lookup(t, "use_alternative_time")

\* check_schedule_conflicts returns False, True or an error string
CheckConflicts(t, result) ==
    /\ pc[t] = "check"
    /\ has_conflict' = [has_conflict EXCEPT ![t] = result]
    /\ pc' = [pc EXCEPT ![t] = ConflictBranch(result)]
    /\ UNCHANGED <<schedule_cache, act, cache_key, info, msg, calendar,
                   started, plans>>
    /\ UNCHANGED <<fixVars, pipeVars, calVars, slotVars, errVars, ruleVars,
                 tokVars, relayVars>>

\* find_next_available_time returns; the alternative is cached and the
\* conflict is presented
FindNext(t, next_available) ==
    /\ pc[t] = "find_next"
    /\ schedule_cache' =
           IF next_available # NoSlot
           THEN CachePut(schedule_cache, cache_key[t] \o "_alternative",
                         AlternativeSchedule(info[t], next_available))
           ELSE schedule_cache
    /\ Return(t, "conflict")
    /\ UNCHANGED <<calendar, started, plans>>
    /\ UNCHANGED <<fixVars, pipeVars, calVars, slotVars, errVars, ruleVars,
                 tokVars, relayVars>>

\* register_calendar_event: create_calendar_event returns success, returns
\* failure or raises
CreateEvent(t, outcome) ==
    /\ pc[t] = "register"
    /\ CASE outcome = "ok" ->
               /\ calendar' = calendar (+) SetToBag({
                      [cand |-> info[t], via |-> act[t], key |-> cache_key[t],
                       check |-> has_conflict[t]] })
               /\ pc' = [pc EXCEPT ![t] = "notify"]
               /\ UNCHANGED <<schedule_cache, act, cache_key, info,
                              has_conflict, msg>>
         [] outcome = "fail" ->
               /\ schedule_cache' = register_cache_effect(schedule_cache, FALSE)
               /\ Return(t, "register_failed")
               /\ UNCHANGED calendar
         [] OTHER ->
               /\ Return(t, "register_error")
               /\ UNCHANGED <<schedule_cache, calendar>>
    /\ UNCHANGED <<started, plans>>
    /\ UNCHANGED <<fixVars, pipeVars, calVars, slotVars, errVars, ruleVars,
                 tokVars, relayVars>>

\* register_calendar_event after a successful insert: the confirmation is
\* posted, then the cache is cleared; a post that raises skips the clearing
Notify(t, post_ok) ==
    /\ pc[t] = "notify"
    /\ schedule_cache' =
           IF post_ok THEN register_cache_effect(schedule_cache, TRUE)
           ELSE schedule_cache
    /\ Return(t, IF post_ok THEN "registered" ELSE "register_error")
    /\ UNCHANGED <<calendar, started, plans>>
    /\ UNCHANGED <<fixVars, pipeVars, calVars, slotVars, errVars, ruleVars,
                 tokVars, relayVars>>

\* process_interactive_action for cancel_schedule: the notice is posted,
\* then the cache is cleared; a post that raises skips the clearing
Cancel(t, post_ok) ==
    /\ FreeThread(t)
    /\ started < MaxActions
    /\ started' = started + 1
    /\ schedule_cache' =
           IF post_ok THEN ClearEntries(schedule_cache) ELSE schedule_cache
    /\ Return(t, IF post_ok THEN "cancelled" ELSE "error")
    /\ UNCHANGED <<calendar, plans>>
    /\ UNCHANGED <<fixVars, pipeVars, calVars, slotVars, errVars, ruleVars,
                 tokVars, relayVars>>

NextFlow ==
    \/ \E c1, c2 \in PlanSamples \cup {NoInfo} : PlanCommand(c1, c2)
    \/ \E t \in Threads : Confirm(t)
    \/ \E t \in Threads : Force(t)
    \/ \E t \in Threads : UseAlternative(t)
    \/ \E t \in Threads, r \in {"false", "true", "error"} : CheckConflicts(t, r)
    \/ \E t \in Threads, n \in {NoSlot} \cup SlotSamples : FindNext(t, n)
    \/ \E t \in Threads, o \in {"ok", "fail", "raise"} : CreateEvent(t, o)
    \/ \E t \in Threads, ok \in BOOLEAN : Notify(t, ok)
    \/ \E t \in Threads, ok \in BOOLEAN : Cancel(t, ok)

SpecFlow == InitFlow /\ [][NextFlow]_vars

----------------------------------------------------------------------------
(* C1 *)

\* C1: every candidate returned by ensure_valid_schedule has end > start,
\* end = start + 1 day when it is all-day, and start >= now.
C1_ReturnedCandidateValid ==
    fx_pc \in {"backend", "archive"} =>
        /\ fx_out.end > fx_out.start
        /\ fx_out.is_all_day => fx_out.end = fx_out.start + MinPerDay
        /\ fx_out.start >= fx_now

----------------------------------------------------------------------------
(* C4, C5 *)

\* C4: when the extractor reports confidence >= 0.4 the pipeline returns the
\* LLM candidate after ensure_valid_schedule and never calls the rule-based
\* parser; when it reports confidence < 0.3 the pipeline returns the
\* rule-based parser's result.
C4_ThresholdRouting ==
    (p_pc = "done" /\ p_configured) =>
        /\ p_llm.confidence >= 400 =>
              /\ p_path = "normalized"
              /\ p_result = ensure_valid_schedule(p_llm.info, p_now)
              /\ p_rule_calls = 0
        /\ p_llm.confidence < 300 =>
              /\ p_path = "rule"
              /\ p_result = p_rule
              /\ p_rule_calls = 1

C4_Witness ==
    /\ p_pc = "done"
    /\ p_configured
    /\ p_raw.confidence = 400
    /\ MissingFields(p_raw) = 0
    /\ p_llm.confidence = 400
    /\ p_path = "normalized"
    /\ p_rule_calls = 0

\* the model's answer, converted, is a structurally valid candidate
RawStructurallyValid(raw, now) ==
    /\ raw.api_ok
    /\ raw.title # ""
    /\ raw.date \notin {Absent, Malformed}
    /\ raw.start_time \notin {Absent, Malformed}
    /\ is_valid_schedule_info(convert_openai_result_to_schedule(raw, now))

\* C5: with a reported confidence in [0.3, 0.4) and a structurally valid
\* answer the pipeline returns the LLM candidate as it is and does not call
\* the rule-based parser.
C5_LowConfidenceAccepted ==
    (/\ p_pc = "done"
     /\ p_configured
     /\ p_llm.confidence >= 300
     /\ p_llm.confidence < 400
     /\ RawStructurallyValid(p_raw, p_now)) =>
        /\ p_path = "as_is"
        /\ p_rule_calls = 0

----------------------------------------------------------------------------
(* C2, C3, C6 - C10 *)

\* the events of the calendar that came from the dict of request n
InsertsOf(n) == { e \in BagToSet(calendar) : e.cand.req = n }

\* C2: a cached candidate is inserted into the calendar at most once,
\* whatever confirm, force and use-alternative actions run concurrently.
C2_NoDuplicateInsert ==
    \A e \in BagToSet(calendar) :
        /\ CopiesIn(e, calendar) = 1
        /\ InsertsOf(e.cand.req) = {e}

\* C3: a confirmation whose availability check returned an error value never
\* proceeds to calendar registration.
C3_CheckErrorNeverRegisters ==
    \A t \in Threads :
        has_conflict[t] = "error" => pc[t] \notin {"register", "notify"}

\* C6: the step in which create_calendar_event returns failure or raises
\* leaves schedule_cache unchanged, so the candidate the thread read is still
\* cached under the key it was read from unless another thread removed it.
C6_FailureKeepsCache ==
    [][\A t \in Threads :
          (pc[t] = "register" /\ pc'[t] = "idle") =>
              schedule_cache' = schedule_cache]_vars

C6_Witness ==
    /\ msg = "register_failed"
    /\ \A t \in Threads : pc[t] = "idle"
    /\ MainKey \in DOMAIN schedule_cache
    /\ AlternativeKey \in DOMAIN schedule_cache
    /\ calendar = EmptyBag

\* C7: when register_calendar_event finishes after a successful insert,
\* neither the (user, channel) entry nor its alternative entry is left in the
\* cache; and a confirm without conflict makes exactly one attempt.
C7_SuccessClearsCache ==
    [][\A t \in Threads :
          /\ (pc[t] = "notify" /\ pc'[t] = "idle") =>
                 DOMAIN schedule_cache' = {}
          /\ (pc[t] = "check" /\ has_conflict'[t] = "false") =>
                 pc'[t] = "register"]_vars

\* C8: a cancel arriving while a candidate is cached removes both entries
\* and registers nothing.
C8_CancelClearsCache ==
    [][(/\ MainKey \in DOMAIN schedule_cache
        /\ \E t \in Threads, ok \in BOOLEAN : Cancel(t, ok)) =>
           /\ DOMAIN schedule_cache' = {}
           /\ calendar' = calendar]_vars

\* C9: a confirm, force or use-alternative action that finds no entry under
\* its key reports that the schedule was not found, checks nothing, registers
\* nothing, leaves the cache as it is and returns.
C9_MissingEntryReported ==
    [][\A t \in Threads :
          \A a \in {"confirm_schedule", "force_schedule",
                    "use_alternative_time"} :
              (CacheKeyOf(a) \notin DOMAIN schedule_cache /\ Lookup(t, a)) =>
                  /\ msg' = NotFoundMessage(a)
                  /\ pc'[t] = "idle"
                  /\ schedule_cache' = schedule_cache
                  /\ calendar' = calendar]_vars

C9_Witness ==
    /\ msg = "alt_not_found"
    /\ MainKey \in DOMAIN schedule_cache
    /\ AlternativeKey \notin DOMAIN schedule_cache
    /\ started > 0
    /\ calendar = EmptyBag

\* the dicts show_schedule_confirmation can cache under the (user, channel)
\* key, and the alternatives derived from them
OriginalCandidates ==
    { Request(si, n) : si \in { c \in PlanSamples : Detected(c) },
                       n \in 1 .. MaxPlans }

AlternativeCandidates ==
    { AlternativeSchedule(si, n) : si \in OriginalCandidates,
                                   n \in SlotSamples }

\* C10: force register inserts the original candidate read from the
\* (user, channel) key with its original start and end; use alternative
\* inserts the alternative read from the derived key with the alternative
\* start and end; neither inserts the other one's candidate.
C10_ForceOriginalAlternativeDerived ==
    \A e \in BagToSet(calendar) :
        /\ e.via = "force_schedule" =>
               /\ e.key = MainKey
               /\ e.cand \in OriginalCandidates
               /\ e.cand \notin AlternativeCandidates
        /\ e.via = "use_alternative_time" =>
               /\ e.key = AlternativeKey
               /\ e.cand \in AlternativeCandidates
               /\ e.cand \notin OriginalCandidates

C10_Witness ==
    \E e \in BagToSet(calendar) :
        /\ e.via = "use_alternative_time"
        /\ e.cand.start \in SlotSamples
        /\ MainKey \in DOMAIN schedule_cache
        /\ schedule_cache[MainKey].req = e.cand.req
        /\ schedule_cache[MainKey].start # e.cand.start

----------------------------------------------------------------------------
(* C28 *)

\* the duration of a cached candidate
DurationOf(si) == si.end - si.start

\* C28: an alternative entry of the cache was derived from the candidate that
\* is cached under the (user, channel) key now: it has the same title and the
\* same duration.
C28_AlternativeDerivedFromCurrent ==
    AlternativeKey \in DOMAIN schedule_cache =>
        /\ MainKey \in DOMAIN schedule_cache
        /\ schedule_cache[AlternativeKey].title = schedule_cache[MainKey].title
        /\ DurationOf(schedule_cache[AlternativeKey]) =
               DurationOf(schedule_cache[MainKey])

----------------------------------------------------------------------------
(* C11 *)

\* the candidate the last call of parse_schedule_from_text in
\* process_plan_command returned: the one for the text when it was detected or
\* when there is no history, else the one for the history
LastParsed(from_text, from_history) ==
    IF from_text # NoInfo /\ Detected(from_text) THEN from_text
    ELSE IF from_history = NoInfo THEN from_text
    ELSE from_history

\* C11: every candidate in schedule_cache has confidence >= 0.5; a /plan
\* command whose pipeline result has confidence < 0.5 posts that no schedule
\* was detected and leaves schedule_cache unchanged.
C11_CachedOnlyWhenConfident ==
    [][/\ \A k \in DOMAIN schedule_cache' :
              schedule_cache'[k].confidence >= 500
       /\ \A c1, c2 \in PlanSamples \cup {NoInfo} :
              (/\ PlanCommand(c1, c2)
               /\ LastParsed(c1, c2) # NoInfo
               /\ LastParsed(c1, c2).confidence < 500) =>
                  /\ msg' \in {"not_detected", "no_history"}
                  /\ schedule_cache' = schedule_cache]_vars

C11_Witness ==
    /\ msg = "not_detected"
    /\ plans = 2
    /\ MainKey \in DOMAIN schedule_cache
    /\ schedule_cache[MainKey].req = 1
    /\ schedule_cache[MainKey].confidence = 500

----------------------------------------------------------------------------
(* Specification SpecCal: check_schedule_conflicts and create_calendar_event *)
(* of backend/src/utils/calendar_handler.py                                 *)

\* events one list call returns
MaxEvents == 2

\* for attempt in range(3)
MaxInsertAttempts == 3

\* the stored credentials of the user: linked = the user has a refresh token,
\* valid = creds.valid, expired = creds.expired, refresh_ok = creds.refresh
\* succeeds, build_ok = build('calendar', 'v3', ...) succeeds
CredSamples ==
    [linked : BOOLEAN, valid : BOOLEAN, expired : BOOLEAN,
     refresh_ok : BOOLEAN, build_ok : BOOLEAN]

\* the error string of get_credentials_from_user, or "ok"
get_credentials_from_user(cr) ==
    IF ~cr.linked THEN "not linked"
    ELSE IF cr.valid THEN "ok"
    ELSE IF cr.expired
         THEN IF cr.refresh_ok THEN "ok" ELSE "refresh failed"
         ELSE "no refresh token"

\* the error string of get_calendar_service, or "ok"
get_calendar_service(cr) ==
    IF get_credentials_from_user(cr) # "ok" THEN get_credentials_from_user(cr)
    ELSE IF cr.build_ok THEN "ok"
    ELSE "build failed"

\* an event resource: all-day events carry start.date, timed ones
\* start.dateTime
EventSamples == [all_day : BOOLEAN]

RECURSIVE SeqsUpTo(_, _)
SeqsUpTo(S, n) ==
    IF n = 0 THEN {<<>>}
    ELSE SeqsUpTo(S, n - 1)
             \cup { Append(q, x) : q \in SeqsUpTo(S, n - 1), x \in S }

\* events().list(...).execute(): raises, or returns the items
ListingSamples ==
    { [raises |-> TRUE, items |-> <<>>] }
        \cup { [raises |-> FALSE, items |-> q] :
                   q \in SeqsUpTo(EventSamples, MaxEvents) }

NoListing == [raises |-> FALSE, items |-> <<>>]

\* the conflict record appended for one event
ConflictRecord(event) == [is_all_day |-> event.all_day]

\* variant of ConflictsOf: all-day events are not reported
TimedConflictsOf(items) ==
    SelectSeq([i \in 1 .. Len(items) |-> ConflictRecord(items[i])],
              LAMBDA c : ~c.is_all_day)

\* the list conflicts built by the loop over the events
ConflictsOf(items) == [i \in 1 .. Len(items) |-> ConflictRecord(items[i])]

\* variant of check_schedule_conflicts: a failure is reported as no conflict
check_schedule_conflicts_silent(cr, listing) ==
    IF get_calendar_service(cr) # "ok" \/ listing.raises
    THEN [has_conflict |-> "false", conflicts |-> <<>>]
    ELSE IF listing.items = <<>>
         THEN [has_conflict |-> "false", conflicts |-> <<>>]
         ELSE [has_conflict |-> "true",
               conflicts |-> ConflictsOf(listing.items)]

\* the pair check_schedule_conflicts returns; has_conflict is "true",
\* "false" or an error string
check_schedule_conflicts(cr, listing) ==
    IF get_calendar_service(cr) # "ok"
    THEN [has_conflict |-> get_calendar_service(cr), conflicts |-> <<>>]
    ELSE IF listing.raises
         THEN [has_conflict |-> "list failed", conflicts |-> <<>>]
         ELSE IF listing.items = <<>>
              THEN [has_conflict |-> "false", conflicts |-> <<>>]
              ELSE [has_conflict |-> "true",
                    conflicts |-> ConflictsOf(listing.items)]

\* isinstance(has_conflict, bool)
IsBool(x) == x \in {"true", "false"}

InitCal ==
    /\ c_op \in {"check", "create"}
    /\ c_creds \in CredSamples
    /\ \/ c_op = "check" /\ c_listing \in ListingSamples
       \/ c_op = "create" /\ c_listing = NoListing
    /\ c_attempts = <<>>
    /\ c_result = [result |-> "none"]
    /\ c_pc = "start"
    /\ FixIdle
    /\ PipeIdle
    /\ FlowIdle
    /\ SlotIdle
    /\ ErrIdle
    /\ RuleIdle
    /\ TokIdle
    /\ RelayIdle

\* one call of check_schedule_conflicts
CalCheck ==
    /\ c_op = "check"
    /\ c_pc = "start"
    /\ c_result' = check_schedule_conflicts(c_creds, c_listing)
    /\ c_pc' = "returned"
    /\ UNCHANGED <<c_op, c_creds, c_listing, c_attempts>>
    /\ UNCHANGED <<fixVars, pipeVars, flowVars, slotVars, errVars, ruleVars,
                 tokVars, relayVars>>

\* variant of AfterInsert: any exception of the insert is retried
AfterInsertRetryAll(attempt, outcome) ==
    CASE outcome = "ok" -> "success"
      [] attempt = MaxInsertAttempts - 1 -> "failure"
      [] OTHER -> "retry"

\* create_calendar_event: what follows the insert call of the given attempt
\* (0, 1 or 2), which returned ("ok"), raised HttpError ("http_error") or
\* raised another exception ("error")
AfterInsert(attempt, outcome) ==
    CASE outcome = "ok" -> "success"
      [] outcome = "http_error" ->
             IF attempt = MaxInsertAttempts - 1 THEN "failure" ELSE "retry"
      [] OTHER -> "unexpected"

\* the pair create_calendar_event returns at each exit
InsertResult(exit) ==
    CASE exit = "success" -> [success |-> TRUE, result |-> "htmlLink"]
      [] exit = "failure" -> [success |-> FALSE, result |-> "registration failed: HttpError"]
      [] OTHER -> [success |-> FALSE, result |-> "unexpected error"]

\* create_calendar_event: get_calendar_service returns an error
ServiceError ==
    /\ c_op = "create"
    /\ c_pc \in {"start", "running"}
    /\ get_calendar_service(c_creds) # "ok"
    /\ c_result' = [success |-> FALSE, result |-> get_calendar_service(c_creds)]
    /\ c_pc' = "returned"
    /\ UNCHANGED <<c_op, c_creds, c_listing, c_attempts>>
    /\ UNCHANGED <<fixVars, pipeVars, flowVars, slotVars, errVars, ruleVars,
                 tokVars, relayVars>>

\* create_calendar_event: one pass of the loop that reaches the insert call
InsertAttempt(outcome) ==
    /\ c_op = "create"
    /\ c_pc \in {"start", "running"}
    /\ Len(c_attempts) < MaxInsertAttempts
    /\ get_calendar_service(c_creds) = "ok"
    /\ c_attempts' = Append(c_attempts, outcome)
    /\ LET exit == AfterInsert(Len(c_attempts), outcome)
       IN  IF exit = "retry"
           THEN c_pc' = "running" /\ UNCHANGED c_result
           ELSE c_pc' = "returned" /\ c_result' = InsertResult(exit)
    /\ UNCHANGED <<c_op, c_creds, c_listing>>
    /\ UNCHANGED <<fixVars, pipeVars, flowVars, slotVars, errVars, ruleVars,
                 tokVars, relayVars>>

NextCal ==
    \/ CalCheck
    \/ ServiceError
    \/ \E o \in {"ok", "http_error", "error"} : InsertAttempt(o)

SpecCal == InitCal /\ [][NextCal]_vars

----------------------------------------------------------------------------
(* C12, C13, C20 *)

\* C12: check_schedule_conflicts returns has_conflict = True whenever the
\* list call returned at least one event, timed or all-day, returns
\* (False, []) exactly when it returned none, and returns one conflict record
\* for every event.
C12_AnyEventIsConflict ==
    (/\ c_op = "check"
     /\ c_pc = "returned"
     /\ get_calendar_service(c_creds) = "ok"
     /\ ~c_listing.raises) =>
        /\ Len(c_listing.items) >= 1 => c_result.has_conflict = "true"
        /\ c_result.has_conflict = "false" <=> c_listing.items = <<>>
        /\ c_listing.items = <<>> => c_result.conflicts = <<>>
        /\ Len(c_result.conflicts) = Len(c_listing.items)

C12_Witness ==
    /\ c_op = "check"
    /\ c_pc = "returned"
    /\ c_result.has_conflict = "true"
    /\ Len(c_result.conflicts) = 2
    /\ c_result.conflicts[1].is_all_day
    /\ ~c_result.conflicts[2].is_all_day

\* C13: when no calendar service can be obtained or the list call raises,
\* check_schedule_conflicts returns an error value that is not a boolean,
\* with an empty conflict list.
C13_FailureIsErrorValue ==
    (/\ c_op = "check"
     /\ c_pc = "returned"
     /\ (get_calendar_service(c_creds) # "ok" \/ c_listing.raises)) =>
        /\ ~IsBool(c_result.has_conflict)
        /\ c_result.has_conflict # "false"
        /\ c_result.conflicts = <<>>

C13_Witness ==
    /\ c_op = "check"
    /\ c_pc = "returned"
    /\ c_creds.linked
    /\ ~c_creds.valid
    /\ c_creds.expired
    /\ ~c_creds.refresh_ok
    /\ c_result.has_conflict = "refresh failed"

\* C20: create_calendar_event makes at most 3 insert calls; it returns
\* success with the event link at the first call that succeeds, makes another
\* call only after an HttpError, returns failure with the provider's message
\* after the third HttpError in a row, and whenever it returns it returns a
\* (success, result) pair.
C20_AtMostThreeAttempts ==
    c_op = "create" =>
        /\ Len(c_attempts) <= 3
        /\ \A i \in 1 .. Len(c_attempts) - 1 : c_attempts[i] = "http_error"
        /\ c_pc = "running" =>
               /\ Len(c_attempts) < 3
               /\ \A i \in 1 .. Len(c_attempts) : c_attempts[i] = "http_error"
        /\ c_pc = "returned" =>
               /\ DOMAIN c_result = {"success", "result"}
               /\ c_result.success \in BOOLEAN
               /\ c_result.success <=>
                      (c_attempts # <<>> /\ c_attempts[Len(c_attempts)] = "ok")
               /\ c_result.success => c_result.result = "htmlLink"
               /\ (c_attempts # <<>> /\ c_attempts[Len(c_attempts)] = "http_error")
                      => /\ Len(c_attempts) = 3
                         /\ c_result.result = "registration failed: HttpError"

C20_Witness ==
    /\ c_op = "create"
    /\ c_pc = "returned"
    /\ c_attempts = <<"http_error", "http_error", "http_error">>
    /\ c_result = [success |-> FALSE,
                   result |-> "registration failed: HttpError"]

----------------------------------------------------------------------------
(* Specification SpecSlot: find_next_available_time of                      *)
(* backend/src/utils/calendar_handler.py ("backend") and of                 *)
(* utils/calendar_handler.py ("utils")                                      *)

\* the argument max_days (7 when the caller omits it)
MaxDays == 2

\* return start_time + timedelta(days=7)
FallbackDays == 7

\* business hours: replace(hour=9, minute=0) and replace(hour=18, minute=0)
OpenHour == 9
CloseHour == 18

\* the contents of one day of the calendar: an all-day event or not, and the
\* timed events as <<start, end>> in minutes of the day, in the order of
\* orderBy='startTime'
DayPatterns ==
    { [all_day |-> FALSE, timed |-> <<>>],
      [all_day |-> TRUE, timed |-> <<>>],
      [all_day |-> FALSE, timed |-> << <<9 * 60, 18 * 60>> >>],
      [all_day |-> FALSE, timed |-> << <<9 * 60, 17 * 60>>, <<10 * 60, 11 * 60>> >>],
      [all_day |-> FALSE, timed |-> << <<9 * 60, 11 * 60>>, <<10 * 60, 12 * 60 + 30>> >>],
      [all_day |-> FALSE, timed |-> << <<9 * 60 + 30, 12 * 60>>, <<13 * 60, 18 * 60>> >>] }

SlotStartSamples ==
    { At(Today, 8, 0), At(Today, 10, 0), At(Today, 17, 30), At(Today, 19, 0) }

DurationSamples == {60, 180}

\* the timed events of calendar day `day`, with absolute times
TimedOn(events, day) ==
    LET pat == events[day - Today + 1].timed
    IN  [i \in 1 .. Len(pat) |->
            <<day * MinPerDay + pat[i][1], day * MinPerDay + pat[i][2]>>]

\* events().list(timeMin=day_start, timeMax=day_end): the events that end
\* after timeMin and start before timeMax
Listed(evs, day_start, day_end) ==
    SelectSeq(evs, LAMBDA e : e[2] > day_start /\ e[1] < day_end)

\* parsed_events.sort(key=lambda x: x[0]): a stable insertion sort
RECURSIVE InsertByStart(_, _)
InsertByStart(sorted, e) ==
    IF sorted = <<>> THEN <<e>>
    ELSE IF e[1] < sorted[Len(sorted)][1]
         THEN Append(InsertByStart(SubSeq(sorted, 1, Len(sorted) - 1), e),
                     sorted[Len(sorted)])
         ELSE Append(sorted, e)

RECURSIVE SortByStart(_)
SortByStart(evs) ==
    IF evs = <<>> THEN <<>>
    ELSE InsertByStart(SortByStart(SubSeq(evs, 1, Len(evs) - 1)), evs[Len(evs)])

\* the loop over parsed_events from event i on, with current_time = ct:
\* found = it returned current_time, at = current_time at the return or after
\* the loop
RECURSIVE GapScan(_, _, _, _)
GapScan(evs, i, ct, d) ==
    IF i > Len(evs) THEN [found |-> FALSE, at |-> ct]
    ELSE IF ct < evs[i][1] /\ evs[i][1] - ct >= d
         THEN [found |-> TRUE, at |-> ct]
         ELSE GapScan(evs, i + 1, Max(ct, evs[i][2]), d)

\* current_day + timedelta(days=1), at 09:00
NextDay(t) == At(DateOf(t) + 1, OpenHour, 0)

\* one pass of the while loop for a day whose events were listed: the slot it
\* returns, or NoSlot when it goes on to the next day
DaySlot(variant, day_start, all_day, listed, d) ==
    LET day_end == At(DateOf(day_start), CloseHour, 0)
        evs == SortByStart(listed)
        scan == GapScan(evs, 1, day_start, d)
    IN  IF all_day THEN NoSlot
        ELSE IF evs = <<>>
             THEN IF variant = "backend" \/ day_end - day_start >= d
                  THEN day_start
                  ELSE NoSlot
        ELSE IF evs[1][1] - day_start >= d THEN day_start
        ELSE IF scan.found THEN scan.at
        ELSE IF variant = "backend"
             THEN IF day_end - scan.at >= d THEN scan.at ELSE NoSlot
             ELSE IF day_end - evs[Len(evs)][2] >= d
                  THEN evs[Len(evs)][2]
                  ELSE NoSlot

\* end_search = start_time + timedelta(days=max_days)
EndSearch == sl_start + MaxDays * MinPerDay

\* the days of the calendar, counted from today = 1, whose events the model
\* holds: the days the loop can list, and the day of start_time + 7 days
SlotDays == (1 .. MaxDays + 1) \cup {FallbackDays + 1}

\* what the calendar holds on the day of start_time + 7 days
FallbackDayPatterns ==
    { pat \in DayPatterns : Len(pat.timed) = 0 }

InitSlot ==
    /\ sl_variant \in {"backend", "utils"}
    /\ sl_start \in SlotStartSamples
    /\ sl_duration \in DurationSamples
    /\ sl_events \in
           { f \in [SlotDays -> DayPatterns] :
               f[FallbackDays + 1] \in FallbackDayPatterns }
    /\ sl_day = 0
    /\ sl_queries = <<>>
    /\ sl_result = Absent
    /\ sl_pc = "start"
    /\ FixIdle
    /\ PipeIdle
    /\ FlowIdle
    /\ CalIdle
    /\ ErrIdle
    /\ RuleIdle
    /\ TokIdle
    /\ RelayIdle

\* current_day = max(start_time at 09:00, start_time)
SlotBegin ==
    /\ sl_pc = "start"
    /\ sl_day' = Max(At(DateOf(sl_start), OpenHour, 0), sl_start)
    /\ sl_pc' = "loop"
    /\ UNCHANGED <<sl_variant, sl_start, sl_duration, sl_events, sl_queries,
                   sl_result>>
    /\ UNCHANGED <<fixVars, pipeVars, flowVars, calVars, errVars, ruleVars,
                 tokVars, relayVars>>

\* if day_start.hour >= 18: next day, continue
SlotSkipEvening ==
    /\ sl_pc = "loop"
    /\ sl_day < EndSearch
    /\ HourOf(sl_day) >= CloseHour
    /\ sl_day' = NextDay(sl_day)
    /\ UNCHANGED <<sl_variant, sl_start, sl_duration, sl_events, sl_queries,
                   sl_result, sl_pc>>
    /\ UNCHANGED <<fixVars, pipeVars, flowVars, calVars, errVars, ruleVars,
                 tokVars, relayVars>>

\* one pass of the loop that lists the events of the day
SlotDay ==
    /\ sl_pc = "loop"
    /\ sl_day < EndSearch
    /\ HourOf(sl_day) < CloseHour
    /\ sl_queries' = Append(sl_queries, DateOf(sl_day))
    /\ LET day == DateOf(sl_day)
           day_end == At(day, CloseHour, 0)
           found == DaySlot(sl_variant, sl_day,
                            sl_events[day - Today + 1].all_day,
                            Listed(TimedOn(sl_events, day), sl_day, day_end),
                            sl_duration)
       IN  IF found = NoSlot
           THEN /\ sl_day' = NextDay(sl_day)
                /\ UNCHANGED <<sl_result, sl_pc>>
           ELSE /\ sl_result' = found
                /\ sl_pc' = "returned_slot"
                /\ UNCHANGED sl_day
    /\ UNCHANGED <<sl_variant, sl_start, sl_duration, sl_events>>
    /\ UNCHANGED <<fixVars, pipeVars, flowVars, calVars, errVars, ruleVars,
                 tokVars, relayVars>>

\* the list call raises: except Exception: return None
SlotListFails ==
    /\ sl_pc = "loop"
    /\ sl_day < EndSearch
    /\ HourOf(sl_day) < CloseHour
    /\ sl_queries' = Append(sl_queries, DateOf(sl_day))
    /\ sl_result' = NoSlot
    /\ sl_pc' = "returned_error"
    /\ UNCHANGED <<sl_variant, sl_start, sl_duration, sl_events, sl_day>>
    /\ UNCHANGED <<fixVars, pipeVars, flowVars, calVars, errVars, ruleVars,
                 tokVars, relayVars>>

\* the while loop ends: "backend" proposes the same time a week later,
\* "utils" returns None
SlotExhausted ==
    /\ sl_pc = "loop"
    /\ sl_day >= EndSearch
    /\ IF sl_variant = "backend"
       THEN /\ sl_result' = sl_start + FallbackDays * MinPerDay
            /\ sl_pc' = "returned_fallback"
       ELSE /\ sl_result' = NoSlot
            /\ sl_pc' = "returned_none"
    /\ UNCHANGED <<sl_variant, sl_start, sl_duration, sl_events, sl_day,
                   sl_queries>>
    /\ UNCHANGED <<fixVars, pipeVars, flowVars, calVars, errVars, ruleVars,
                 tokVars, relayVars>>

NextSlot ==
    SlotBegin \/ SlotSkipEvening \/ SlotDay \/ SlotListFails \/ SlotExhausted

SpecSlot == InitSlot /\ [][NextSlot]_vars

\* the scheduler runs find_next_available_time to its return
SpecSlotFair == SpecSlot /\ WF_vars(NextSlot)

----------------------------------------------------------------------------
(* C14, C15, C16 *)

\* find_next_available_time returns
SlotTerminates == <>(sl_pc \notin {"idle", "start", "loop"})

\* C14: find_next_available_time lists the events of at most max_days
\* calendar days, each of them once, before it returns.
C14_AtMostMaxDaysQueried ==
    /\ Len(sl_queries) <= MaxDays
    /\ \A i, j \in 1 .. Len(sl_queries) : i < j => sl_queries[i] < sl_queries[j]

\* the interval [s, s + d) lies inside 09:00-18:00 of its day and overlaps
\* no timed event of that day
GenuineGap(s, d) ==
    LET day == DateOf(s)
        evs == TimedOn(sl_events, day)
    IN  /\ s >= At(day, OpenHour, 0)
        /\ s + d <= At(day, CloseHour, 0)
        /\ \A i \in 1 .. Len(evs) : ~(evs[i][1] < s + d /\ evs[i][2] > s)

\* C15: a slot start s returned by the search for duration d is a genuine
\* gap: [s, s + d) is inside business hours and overlaps no timed event of
\* its day.
C15_ReturnedSlotIsGap ==
    sl_pc = "returned_slot" => GenuineGap(sl_result, sl_duration)

\* the first instant of calendar day `day` the search may propose
WindowStart(day) ==
    IF day = DateOf(sl_start)
    THEN Max(At(day, OpenHour, 0), sl_start)
    ELSE At(day, OpenHour, 0)

\* calendar day `day` has no all-day event and has a gap of sl_duration
\* minutes; a gap, if there is one, starts at the window start or at the end
\* of an event
HasGap(day) ==
    LET evs == TimedOn(sl_events, day)
        starts == {WindowStart(day)} \cup { evs[i][2] : i \in 1 .. Len(evs) }
    IN  /\ ~sl_events[day - Today + 1].all_day
        /\ \E s \in starts :
               s >= WindowStart(day) /\ GenuineGap(s, sl_duration)

\* C16: when no day of the search has a gap of duration_minutes,
\* find_next_available_time returns None.
C16_NoGapReturnsNone ==
    (/\ sl_pc \notin {"idle", "start", "loop"}
     /\ \A day \in Today .. Today + MaxDays : ~HasGap(day)) =>
        sl_result = NoSlot

\* the calendar day of the returned time holds an all-day event
OnAllDayDay(t) == sl_events[DateOf(t) - Today + 1].all_day

\* C25: find_next_available_time never returns a time on a day that holds an
\* all-day event: the loop skips such a day and goes on at 09:00 of the
\* following day.
C25_NoSlotOnAllDayDay ==
    (/\ sl_pc \in {"returned_slot", "returned_fallback"}
     /\ sl_result # NoSlot) => ~OnAllDayDay(sl_result)

\* C25, within the loop: a listed day with an all-day event is left for 09:00
\* of the following day, and no slot of it is returned
C25_AllDayDaySkipped ==
    [][(/\ sl_pc = "loop"
        /\ Len(sl_queries') > Len(sl_queries)
        /\ sl_pc' # "returned_error"
        /\ OnAllDayDay(sl_day)) =>
           (sl_pc' = "loop" /\ sl_day' = NextDay(sl_day))]_vars

----------------------------------------------------------------------------
(* Specification SpecErr: the exceptions of one call of a parser entry     *)
(* point, and what the handler that called it posts                        *)

\* the entry points: parse_schedule_from_text and
\* parse_user_input_for_scheduling of backend/src/utils/nlp_parser.py,
\* parse_user_input_for_scheduling of utils/message_parser.py and
\* parse_schedule_from_text of utils/nlp_parser.py
Entries == {"text", "user", "message", "legacy"}

\* the text makes the rule-based parser raise, e.g. time(25, 0) for "25時"
RuleRaises ==
    [title |-> "raises", start |-> Absent, end |-> Absent,
     is_all_day |-> FALSE, desc_len |-> 0, confidence |-> Absent]

ErrRawSamples ==
    { r \in RawSamples :
        /\ r.confidence \in {350, 700}
        /\ r.title = "kaigi"
        /\ r.date \in {Malformed, Today + 1}
        /\ r.start_time \in {Absent, 9 * MinPerHour}
        /\ r.end_time = Absent
        /\ ~r.all_day }

\* extract_event_info_with_openai of utils/nlp_parser.py: the dict it
\* returns, or raised = TRUE when its except clause re-raises
extract_event_info_with_openai(raw, now) ==
    IF \/ ~raw.api_ok
       \/ raw.date \in {Absent, Malformed}
       \/ ~raw.all_day /\ raw.start_time \in {Absent, Malformed}
    THEN [raised |-> TRUE, value |-> EmptyDict]
    ELSE [raised |-> FALSE,
          value |->
            IF raw.all_day
            THEN [title |-> raw.title, start |-> raw.date * MinPerDay,
                  end |-> (raw.date + 1) * MinPerDay, is_all_day |-> FALSE,
                  desc_len |-> raw.desc_len, confidence |-> 800]
            ELSE [title |-> raw.title,
                  start |-> raw.date * MinPerDay + raw.start_time,
                  end |-> raw.date * MinPerDay + raw.start_time + MinPerHour,
                  is_all_day |-> FALSE, desc_len |-> raw.desc_len,
                  confidence |-> 800]]

\* where an exception of the rule-based parser goes: into the except clause
\* of parse_user_input_for_scheduling, or out of parse_schedule_from_text
RuleExceptionGoes(entry) ==
    CASE entry = "user" -> "except"
      [] entry = "message" -> "none"
      [] OTHER -> "exception"

InitErr ==
    /\ e_entry \in Entries
    /\ e_now = At(Today, 10, 0)
    /\ e_rule \in RuleSamples \cup {RuleRaises}
    /\ \/ e_configured = TRUE /\ e_raw \in ErrRawSamples \cup {NoAnswer}
       \/ e_configured = FALSE /\ e_raw = NoAnswer
    /\ e_llm = [info |-> EmptyDict, confidence |-> 0]
    /\ e_result = EmptyDict
    /\ e_raised = <<>>
    /\ e_rule_calls = 0
    /\ e_outcome = "pending"
    /\ e_msg = "none"
    /\ e_pc = "start"
    /\ FixIdle
    /\ PipeIdle
    /\ FlowIdle
    /\ CalIdle
    /\ SlotIdle
    /\ RuleIdle
    /\ TokIdle
    /\ RelayIdle

\* analyze_conversation_with_openai returns to the entry point
ErrAnalyze ==
    /\ e_pc = "start"
    /\ e_configured
    /\ e_entry \in {"text", "user", "message"}
    /\ e_llm' = analyze_conversation_with_openai(e_raw, e_now)
    /\ e_pc' = "analyzed"
    /\ UNCHANGED <<e_entry, e_configured, e_now, e_raw, e_rule, e_result,
                   e_raised, e_rule_calls, e_outcome, e_msg>>
    /\ UNCHANGED <<fixVars, pipeVars, flowVars, calVars, slotVars, ruleVars,
                 tokVars, relayVars>>

\* utils/nlp_parser.py: return extract_event_info_with_openai(text), or the
\* except clause of parse_schedule_from_text after it has raised
ErrExtract ==
    /\ e_pc = "start"
    /\ e_configured
    /\ e_entry = "legacy"
    /\ LET r == extract_event_info_with_openai(e_raw, e_now)
       IN  IF r.raised
           THEN /\ e_raised' = Append(e_raised, "extractor")
                /\ e_pc' = "fallback"
                /\ UNCHANGED <<e_result, e_outcome>>
           ELSE /\ e_result' = r.value
                /\ e_outcome' = "value"
                /\ e_pc' = "returned"
                /\ UNCHANGED e_raised
    /\ UNCHANGED <<e_entry, e_configured, e_now, e_raw, e_rule, e_llm,
                   e_rule_calls, e_msg>>
    /\ UNCHANGED <<fixVars, pipeVars, flowVars, calVars, slotVars, ruleVars,
                 tokVars, relayVars>>

\* no API key: straight to the rule-based parser
ErrSkip ==
    /\ e_pc = "start"
    /\ ~e_configured
    /\ e_pc' = "fallback"
    /\ UNCHANGED <<e_entry, e_configured, e_now, e_raw, e_rule, e_llm,
                   e_result, e_raised, e_rule_calls, e_outcome, e_msg>>
    /\ UNCHANGED <<fixVars, pipeVars, flowVars, calVars, slotVars, ruleVars,
                 tokVars, relayVars>>

\* the threshold tests of the two entry points of backend nlp_parser.py
ErrRoute ==
    /\ e_pc = "analyzed"
    /\ e_entry \in {"text", "user"}
    /\ LET branch == RouteDecision(e_llm.confidence, e_llm.info)
       IN  CASE branch = "normalized" ->
                   /\ e_result' = ensure_valid_schedule(e_llm.info, e_now)
                   /\ e_outcome' = "value"
                   /\ e_pc' = "returned"
             [] branch = "as_is" ->
                   /\ e_result' = e_llm.info
                   /\ e_outcome' = "value"
                   /\ e_pc' = "returned"
             [] OTHER ->
                   /\ e_pc' = "fallback"
                   /\ UNCHANGED <<e_result, e_outcome>>
    /\ UNCHANGED <<e_entry, e_configured, e_now, e_raw, e_rule, e_llm,
                   e_raised, e_rule_calls, e_msg>>
    /\ UNCHANGED <<fixVars, pipeVars, flowVars, calVars, slotVars, ruleVars,
                 tokVars, relayVars>>

\* the threshold test of utils/message_parser.py
ErrRouteMessage ==
    /\ e_pc = "analyzed"
    /\ e_entry = "message"
    /\ IF e_llm.confidence >= 400
       THEN /\ e_result' = e_llm.info
            /\ e_outcome' = "value"
            /\ e_pc' = "returned"
       ELSE /\ e_pc' = "fallback"
            /\ UNCHANGED <<e_result, e_outcome>>
    /\ UNCHANGED <<e_entry, e_configured, e_now, e_raw, e_rule, e_llm,
                   e_raised, e_rule_calls, e_msg>>
    /\ UNCHANGED <<fixVars, pipeVars, flowVars, calVars, slotVars, ruleVars,
                 tokVars, relayVars>>

\* return rule_based_parser(text) (simple_date_time_parser in
\* message_parser.py), which returns or raises
ErrRuleBased ==
    /\ e_pc = "fallback"
    /\ e_rule_calls' = e_rule_calls + 1
    /\ IF e_rule = RuleRaises
       THEN /\ e_raised' = Append(e_raised, "rule")
            /\ LET goes == RuleExceptionGoes(e_entry)
               IN  IF goes = "except"
                   THEN e_pc' = "except" /\ UNCHANGED e_outcome
                   ELSE e_pc' = "returned" /\ e_outcome' = goes
            /\ UNCHANGED e_result
       ELSE /\ e_result' = e_rule
            /\ e_outcome' = "value"
            /\ e_pc' = "returned"
            /\ UNCHANGED e_raised
    /\ UNCHANGED <<e_entry, e_configured, e_now, e_raw, e_rule, e_llm, e_msg>>
    /\ UNCHANGED <<fixVars, pipeVars, flowVars, calVars, slotVars, ruleVars,
                 tokVars, relayVars>>

\* the except clause of parse_user_input_for_scheduling: the rule-based
\* parser is called with the same text once more, None if it raises
ErrRetry ==
    /\ e_pc = "except"
    /\ e_rule_calls' = e_rule_calls + 1
    /\ IF e_rule = RuleRaises
       THEN /\ e_raised' = Append(e_raised, "rule")
            /\ e_outcome' = "none"
            /\ UNCHANGED e_result
       ELSE /\ e_result' = e_rule
            /\ e_outcome' = "value"
            /\ UNCHANGED e_raised
    /\ e_pc' = "returned"
    /\ UNCHANGED <<e_entry, e_configured, e_now, e_raw, e_rule, e_llm, e_msg>>
    /\ UNCHANGED <<fixVars, pipeVars, flowVars, calVars, slotVars, ruleVars,
                 tokVars, relayVars>>

\* what process_plan_command posts: backend handler for "user", the handler
\* of handlers/slack_handler.py for "legacy"
HandlerMessage(entry, outcome, result) ==
    IF entry = "user"
    THEN IF outcome = "none" \/ result.confidence < 500
         THEN "not_detected" ELSE "confirmation"
    ELSE IF outcome = "exception" THEN "error"
         ELSE IF result.confidence >= 500 /\ result.start # Absent
              THEN "confirmation" ELSE "not_detected"

ErrHandle ==
    /\ e_pc = "returned"
    /\ e_entry \in {"user", "legacy"}
    /\ e_msg' = HandlerMessage(e_entry, e_outcome, e_result)
    /\ e_pc' = "handled"
    /\ UNCHANGED <<e_entry, e_configured, e_now, e_raw, e_rule, e_llm,
                   e_result, e_raised, e_rule_calls, e_outcome>>
    /\ UNCHANGED <<fixVars, pipeVars, flowVars, calVars, slotVars, ruleVars,
                 tokVars, relayVars>>

NextErr ==
    \/ ErrAnalyze
    \/ ErrExtract
    \/ ErrSkip
    \/ ErrRoute
    \/ ErrRouteMessage
    \/ ErrRuleBased
    \/ ErrRetry
    \/ ErrHandle

SpecErr == InitErr /\ [][NextErr]_vars

\* the functions that have raised so far
Raisers == { e_raised[i] : i \in 1 .. Len(e_raised) }

\* C17: the extraction pipeline never raises to its caller; after an
\* exception of the LLM path or of the first rule-based call the rule-based
\* parser is called (again) and its result returned, None is returned only
\* when that call raises too, and the handler reports None as "no schedule
\* detected".
C17_PipelineNeverRaises ==
    /\ e_outcome # "exception"
    /\ e_outcome = "none" =>
          /\ Len(e_raised) >= 2
          /\ e_raised[Len(e_raised)] = "rule"
          /\ e_rule_calls >= 1
    /\ (e_outcome = "value" /\ e_raised # <<>>) =>
          e_rule_calls >= 1 /\ e_result = e_rule
    /\ (e_pc = "handled" /\ e_outcome = "none") => e_msg = "not_detected"

\* C18: the LLM extractor never propagates an exception; a transport, API
\* or response-parsing error yields the pair (empty candidate, 0.0).
C18_ExtractorNeverRaises ==
    /\ "extractor" \notin Raisers
    /\ (e_pc = "analyzed" /\ ~e_raw.api_ok) =>
          e_llm = [info |-> EmptyDict, confidence |-> 0]

----------------------------------------------------------------------------
(* C19 *)

\* a candidate ensure_valid_schedule has nothing to fix in
AlreadyValid(si, now) ==
    /\ si.title # ""
    /\ si.start # Absent
    /\ si.start >= now
    /\ si.end # Absent
    /\ si.end > si.start
    /\ si.desc_len <= MaxDescription

\* C19: ensure_valid_schedule changes no field of a candidate that has a
\* non-empty title, start >= now, end > start and a description of at most
\* 1000 characters, and applying it twice (with the same now) to any
\* candidate returns what applying it once returns.
C19_Idempotent ==
    /\ (fx_pc = "backend" /\ AlreadyValid(fx_in, fx_now)) => fx_out = fx_in
    /\ fx_pc = "backend_twice" =>
          fx_out = ensure_valid_schedule(fx_in, fx_now)

\* the second call has returned for a candidate the first call had to move
\* out of the past
C19_Witness ==
    /\ fx_pc = "backend_twice"
    /\ fx_in.start # Absent
    /\ fx_in.start < fx_now
    /\ fx_out # fx_in
    /\ AlreadyValid(fx_out, fx_now)

----------------------------------------------------------------------------
(* C21 *)

\* C21: every all-day candidate the pipeline returns starts at 00:00 of its
\* date and ends exactly one day later, also when its date is today and the
\* current time is after midnight.
C21_AllDayAtMidnight ==
    (p_pc = "done" /\ p_result.is_all_day) =>
        /\ HourOf(p_result.start) = 0
        /\ MinuteOf(p_result.start) = 0
        /\ p_result.end = p_result.start + MinPerDay

----------------------------------------------------------------------------
(* Specification SpecRule: one call of a rule-based parser on a text,      *)
(* described by what its regular expressions match in it                   *)

\* rule_based_parser of backend/src/utils/nlp_parser.py and of
\* utils/nlp_parser.py, simple_date_time_parser of utils/message_parser.py
\* and of archive/message_parser.py
RuleVariants == {"backend", "legacy", "message", "archive"}

\* at most two time expressions are read from a text
MaxTimes == 2

\* the clock times written in the text: 1:00, 10:00, 23:00
RuleClockSamples == {1 * MinPerHour, 10 * MinPerHour, 23 * MinPerHour}

\* the time expressions of a text, in text order
TimesSamples == UNION { [1 .. n -> RuleClockSamples] : n \in 0 .. MaxTimes }

\* title: a quoted title, a keyword such as "kaigi", some other word, or
\* nothing; date: "ashita"; duration: a phrase "90 fun"; location: matched
\* by a location pattern, by a location keyword, or not at all
SignalSamples ==
    [title : {"quoted", "keyword", "noun", "none"},
     date : BOOLEAN,
     times : TimesSamples,
     duration : BOOLEAN,
     location : {"pattern", "keyword", "none"},
     all_day : BOOLEAN]

\* the minutes of the duration phrase
PhraseMinutes == 90

\* now.replace(minute=0, second=0, microsecond=0)
HourFloor(now) == now - MinuteOf(now)

\* times.sort(): the clock times in ascending order
RECURSIVE SortTimes(_)
SortTimes(ts) ==
    IF ts = <<>> THEN <<>>
    ELSE LET rest == SortTimes(Tail(ts))
             before == SelectSeq(rest, LAMBDA t : t < Head(ts))
             after == SelectSeq(rest, LAMBDA t : t >= Head(ts))
         IN  before \o <<Head(ts)>> \o after

\* rule_based_parser of backend/src/utils/nlp_parser.py
backend_rule_based_parser(sig, now) ==
    LET target_date == IF sig.date THEN DateOf(now) + 1 ELSE DateOf(now)
        start == IF sig.times # <<>>
                 THEN target_date * MinPerDay + sig.times[1]
                 ELSE At(DateOf(now) + 1, 10, 0)
    IN  [title |-> IF sig.title = "quoted" THEN "kaigi" ELSE DefaultTitle,
         start |-> start,
         end |-> start + MinPerHour,
         is_all_day |-> FALSE,
         desc_len |-> 0,
         confidence |-> 700]

\* rule_based_parser of utils/nlp_parser.py
legacy_rule_based_parser(sig, now) ==
    LET target_date == DateOf(now) + 1
        times == SortTimes(sig.times)
        duration_minutes == IF sig.duration THEN PhraseMinutes ELSE MinPerHour
        start == IF sig.times # <<>>
                 THEN target_date * MinPerDay + times[1]
                 ELSE IF sig.date THEN At(target_date, 9, 0) ELSE Absent
        end == IF start = Absent THEN Absent
               ELSE IF Len(sig.times) > 1
                    THEN target_date * MinPerDay + times[2]
                    ELSE start + duration_minutes
    IN  [title |-> CASE sig.title = "quoted" -> "kaigi"
                     [] sig.title = "keyword" -> "kaigi"
                     [] sig.title = "noun" -> "noun"
                     [] OTHER -> DefaultTitle,
         start |-> start,
         end |-> end,
         is_all_day |-> FALSE,
         desc_len |-> 0,
         confidence |->
             (CASE sig.title = "quoted" -> 200
                [] sig.title \in {"keyword", "noun"} -> 100
                [] OTHER -> 0)
             + (IF sig.date THEN 300 ELSE 0)
             + (IF sig.times # <<>> THEN 300 ELSE 0)
             + (IF sig.duration THEN 100 ELSE 0)
             + (CASE sig.location = "pattern" -> 200
                  [] sig.location = "keyword" -> 100
                  [] OTHER -> 0)]

\* the end of simple_date_time_parser when the text has a second time
SecondTimeEnd(date_obj, start, clock) ==
    IF date_obj * MinPerDay + clock <= start
    THEN (date_obj + 1) * MinPerDay + clock
    ELSE date_obj * MinPerDay + clock

\* simple_date_time_parser of utils/message_parser.py
simple_date_time_parser(sig, now) ==
    LET date_obj == DateOf(now) + 1
        start == IF sig.times # <<>>
                 THEN date_obj * MinPerDay + sig.times[1]
                 ELSE HourFloor(now) + MinPerHour
        end == IF sig.times = <<>> THEN HourFloor(now) + 2 * MinPerHour
               ELSE IF Len(sig.times) > 1
                    THEN SecondTimeEnd(date_obj, start, sig.times[2])
                    ELSE start + MinPerHour
    IN  [title |-> IF sig.title \in {"quoted", "keyword"}
                   THEN "kaigi" ELSE DefaultTitle,
         start |-> start,
         end |-> end,
         is_all_day |-> FALSE,
         desc_len |-> 0,
         confidence |->
             300
             + (IF sig.title \in {"quoted", "keyword"} THEN 100 ELSE 0)
             + (IF sig.date THEN 200 ELSE 0)
             + (IF sig.times # <<>> THEN 200 ELSE 0)
             + (IF sig.location = "pattern" THEN 100 ELSE 0)]

\* simple_date_time_parser of archive/message_parser.py
archive_simple_date_time_parser(sig, now) ==
    LET date_obj == DateOf(now) + 1
        titled == sig.title \in {"quoted", "keyword"}
        start == IF sig.times # <<>>
                 THEN date_obj * MinPerDay + sig.times[1]
                 ELSE HourFloor(now) + MinPerHour
        end == IF sig.times = <<>> THEN HourFloor(now) + 2 * MinPerHour
               ELSE IF Len(sig.times) > 1
                    THEN SecondTimeEnd(date_obj, start, sig.times[2])
                    ELSE IF ~titled /\ sig.duration
                         THEN start + PhraseMinutes
                         ELSE start + MinPerHour
    IN  [title |-> IF titled THEN "kaigi" ELSE DefaultTitle,
         start |-> IF sig.all_day THEN date_obj * MinPerDay ELSE start,
         end |-> IF sig.all_day THEN (date_obj + 1) * MinPerDay ELSE end,
         is_all_day |-> sig.all_day,
         desc_len |-> 0,
         confidence |->
             300
             + (IF titled THEN 100 ELSE 0)
             + (IF sig.date THEN 200 ELSE 0)
             + (IF sig.times # <<>> THEN 200 ELSE 0)
             + (IF sig.location # "none" THEN 100 ELSE 0)
             + (IF sig.all_day THEN 100 ELSE 0)]

ParseBy(variant, sig, now) ==
    CASE variant = "backend" -> backend_rule_based_parser(sig, now)
      [] variant = "legacy" -> legacy_rule_based_parser(sig, now)
      [] variant = "message" -> simple_date_time_parser(sig, now)
      [] OTHER -> archive_simple_date_time_parser(sig, now)

\* what process_plan_command does with the parser's result: the handler of
\* backend/src/handlers/slack_handler.py for "backend", the handler of
\* handlers/slack_handler.py for "legacy"
PlanOutcome(variant, result) ==
    IF variant = "backend"
    THEN IF result.confidence < 500 THEN "not_detected" ELSE "confirmation"
    ELSE IF result.confidence >= 500 /\ result.start # Absent
         THEN "confirmation" ELSE "not_detected"

InitRule ==
    /\ r_variant \in RuleVariants
    /\ r_now = At(Today, 10, 30)
    /\ r_sig \in SignalSamples
    /\ r_result = EmptyDict
    /\ r_msg = "none"
    /\ r_pc = "start"
    /\ FixIdle
    /\ PipeIdle
    /\ FlowIdle
    /\ CalIdle
    /\ SlotIdle
    /\ ErrIdle
    /\ TokIdle
    /\ RelayIdle

\* the parser returns
RuleParse ==
    /\ r_pc = "start"
    /\ r_result' = ParseBy(r_variant, r_sig, r_now)
    /\ r_pc' = "parsed"
    /\ UNCHANGED <<r_variant, r_now, r_sig, r_msg>>
    /\ UNCHANGED <<fixVars, pipeVars, flowVars, calVars, slotVars, errVars,
                 tokVars, relayVars>>

\* process_plan_command tests the confidence of the result
RuleHandle ==
    /\ r_pc = "parsed"
    /\ r_variant \in {"backend", "legacy"}
    /\ r_msg' = PlanOutcome(r_variant, r_result)
    /\ r_pc' = "handled"
    /\ UNCHANGED <<r_variant, r_now, r_sig, r_result>>
    /\ UNCHANGED <<fixVars, pipeVars, flowVars, calVars, slotVars, errVars,
                 tokVars, relayVars>>

NextRule == RuleParse \/ RuleHandle

SpecRule == InitRule /\ [][NextRule]_vars

\* no date, no time and no title is matched in the text
NothingMatched(sig) ==
    sig.title = "none" /\ ~sig.date /\ sig.times = <<>>

\* C22: for a text in which no date, no time and no title is matched the
\* rule-based result has confidence < 0.4 and the handler reports that no
\* schedule was detected instead of presenting a candidate.
C22_NothingMatchedNotDetected ==
    (r_variant \in {"backend", "legacy"} /\ NothingMatched(r_sig)) =>
        /\ r_pc \in {"parsed", "handled"} => r_result.confidence < 400
        /\ r_pc = "handled" => r_msg = "not_detected"

\* C26: when the text has two time expressions and the second hour is not
\* later than the first, the first in text order is the start and the second
\* is the end on the following day, so that end > start.
C26_SecondTimeNextDay ==
    (/\ r_pc = "parsed"
     /\ r_variant \in {"legacy", "message"}
     /\ Len(r_sig.times) = 2
     /\ r_sig.times[2] <= r_sig.times[1]) =>
        /\ r_result.start % MinPerDay = r_sig.times[1]
        /\ r_result.end =
              (DateOf(r_result.start) + 1) * MinPerDay + r_sig.times[2]
        /\ r_result.end > r_result.start

\* C27: the confidence a rule-based parser returns lies in [0, 1].
C27_ConfidenceInUnitInterval ==
    r_pc \in {"parsed", "handled"} =>
        /\ r_result.confidence >= 0
        /\ r_result.confidence <= 1000

----------------------------------------------------------------------------
(* Specification SpecConv: the LLM extractor alone, on answers whose date  *)
(* may lie far in the past                                                 *)

\* analyze_conversation_with_openai of backend/src/utils/nlp_parser.py and
\* of utils/openai_analyzer.py
Analyzers == {"backend_analyzer", "utils_analyzer"}

\* dates the model may report: over a year ago, yesterday, today, tomorrow
ConvDateSamples ==
    {Today - DaysPerYear - 30, Today - 1, Today, Today + 1}

ConvRawSamples ==
    { [api_ok |-> TRUE, confidence |-> c, title |-> "kaigi", date |-> d,
       start_time |-> st, end_time |-> et, all_day |-> a, desc_len |-> 0] :
          c \in {700, 1000}, d \in ConvDateSamples,
          st \in {9 * MinPerHour, 23 * MinPerHour},
          et \in {Absent, MinPerHour, 10 * MinPerHour},
          a \in BOOLEAN }

\* validate_schedule_info of utils/openai_analyzer.py: its order test does
\* not look at is_all_day
utils_validate_schedule_info(si, now) ==
    ValidateAllDay(ArchiveFixOrder(ValidatePast(FixTitle(si), now)))

utils_analyze_conversation_with_openai(raw, now) ==
    IF ~raw.api_ok
    THEN [info |-> EmptyDict, confidence |-> 0]
    ELSE IF PenalizedConfidence(raw) < 400
         THEN [info |-> EmptyDict, confidence |-> PenalizedConfidence(raw)]
         ELSE [info |-> utils_validate_schedule_info(
                            convert_openai_result_to_schedule(raw, now), now),
               confidence |-> PenalizedConfidence(raw)]

InitConv ==
    /\ p_now \in PipeNowSamples
    /\ p_entry \in Analyzers
    /\ p_rule = EmptyDict
    /\ p_configured = TRUE
    /\ p_raw \in ConvRawSamples
    /\ p_llm = [info |-> EmptyDict, confidence |-> 0]
    /\ p_result = EmptyDict
    /\ p_path = "none"
    /\ p_rule_calls = 0
    /\ p_pc = "start"
    /\ FixIdle
    /\ FlowIdle
    /\ CalIdle
    /\ SlotIdle
    /\ ErrIdle
    /\ RuleIdle
    /\ TokIdle
    /\ RelayIdle

\* the extractor returns its pair
ExtractorReturns ==
    /\ p_pc = "start"
    /\ p_entry \in Analyzers
    /\ p_llm' = IF p_entry = "backend_analyzer"
                THEN analyze_conversation_with_openai(p_raw, p_now)
                ELSE utils_analyze_conversation_with_openai(p_raw, p_now)
    /\ p_pc' = "analyzed"
    /\ UNCHANGED <<p_now, p_configured, p_entry, p_raw, p_rule, p_result,
                   p_path, p_rule_calls>>
    /\ UNCHANGED fixVars
    /\ UNCHANGED <<flowVars, calVars, slotVars, errVars, ruleVars,
                 tokVars, relayVars>>

NextConv == ExtractorReturns

SpecConv == InitConv /\ [][NextConv]_vars

\* C23: every non-empty candidate the LLM extractor returns (conversion
\* followed by validate_schedule_info, before the pipeline's fix-up) has
\* start >= now and end > start, whatever date the model reports.
C23_ExtractorOutputValid ==
    (p_pc = "analyzed" /\ p_llm.info # EmptyDict) =>
        /\ p_llm.info.start >= p_now
        /\ p_llm.info.end > p_llm.info.start

----------------------------------------------------------------------------
(* Specification SpecTok: concurrent calendar operations of one user whose *)
(* access token has expired                                                *)

\* get_credentials_from_user of backend/src/utils/calendar_handler.py and
\* of utils/calendar_handler.py
TokVariants == {"backend", "utils"}

\* the access token stored when the behaviour starts: it has expired
ExpiredToken == 0

\* where a failed refresh leaves get_credentials_from_user: the backend
\* returns an error, utils rebuilds the Credentials from the database row
AfterRefreshFailure(variant) ==
    IF variant = "backend" THEN "failed" ELSE "done"

InitTok ==
    /\ tk_variant \in TokVariants
    /\ tk_pc = [t \in Threads |-> "idle"]
    /\ tk_local = [t \in Threads |-> ExpiredToken]
    /\ tk_stored = ExpiredToken
    /\ tk_issued = ExpiredToken
    /\ FixIdle
    /\ PipeIdle
    /\ FlowIdle
    /\ CalIdle
    /\ SlotIdle
    /\ ErrIdle
    /\ RuleIdle
    /\ RelayIdle

\* a calendar operation of the user starts in a thread of its own
TokCall(t) ==
    /\ tk_pc[t] = "idle"
    /\ tk_pc' = [tk_pc EXCEPT ![t] = "call"]
    /\ UNCHANGED <<tk_variant, tk_local, tk_stored, tk_issued>>
    /\ UNCHANGED <<fixVars, pipeVars, flowVars, calVars, slotVars, errVars,
                   ruleVars, relayVars>>

\* the stored token is read into a Credentials object and tested
TokLoad(t) ==
    /\ tk_pc[t] = "call"
    /\ tk_local' = [tk_local EXCEPT ![t] = tk_stored]
    /\ tk_pc' = [tk_pc EXCEPT
                   ![t] = IF tk_stored = ExpiredToken THEN "expired"
                          ELSE "done"]
    /\ UNCHANGED <<tk_variant, tk_stored, tk_issued>>
    /\ UNCHANGED <<fixVars, pipeVars, flowVars, calVars, slotVars, errVars,
                   ruleVars, relayVars>>

\* creds.refresh(Request()) sends its request to the token endpoint
TokRefreshBegin(t) ==
    /\ tk_pc[t] = "expired"
    /\ tk_pc' = [tk_pc EXCEPT ![t] = "refreshing"]
    /\ UNCHANGED <<tk_variant, tk_local, tk_stored, tk_issued>>
    /\ UNCHANGED <<fixVars, pipeVars, flowVars, calVars, slotVars, errVars,
                   ruleVars, relayVars>>

\* creds.refresh(Request()) returns with a new token, or raises
TokRefreshEnd(t, ok) ==
    /\ tk_pc[t] = "refreshing"
    /\ IF ok
       THEN /\ tk_issued' = tk_issued + 1
            /\ tk_local' = [tk_local EXCEPT ![t] = tk_issued + 1]
            /\ tk_pc' = [tk_pc EXCEPT ![t] = "refreshed"]
       ELSE /\ tk_pc' = [tk_pc EXCEPT ![t] = AfterRefreshFailure(tk_variant)]
            /\ UNCHANGED <<tk_issued, tk_local>>
    /\ UNCHANGED <<tk_variant, tk_stored>>
    /\ UNCHANGED <<fixVars, pipeVars, flowVars, calVars, slotVars, errVars,
                   ruleVars, relayVars>>

\* the new token is written to the user's row (to token.pickle in utils)
TokStore(t) ==
    /\ tk_pc[t] = "refreshed"
    /\ tk_stored' = tk_local[t]
    /\ tk_pc' = [tk_pc EXCEPT ![t] = "done"]
    /\ UNCHANGED <<tk_variant, tk_local, tk_issued>>
    /\ UNCHANGED <<fixVars, pipeVars, flowVars, calVars, slotVars, errVars,
                   ruleVars, relayVars>>

NextTok ==
    \/ \E t \in Threads : TokCall(t)
    \/ \E t \in Threads : TokLoad(t)
    \/ \E t \in Threads : TokRefreshBegin(t)
    \/ \E t \in Threads, ok \in BOOLEAN : TokRefreshEnd(t, ok)
    \/ \E t \in Threads : TokStore(t)

SpecTok == InitTok /\ [][NextTok]_vars

\* the threads between the start of a refresh and the store of its token
Refreshing == { t \in Threads : tk_pc[t] \in {"refreshing", "refreshed"} }

\* C24: the token refresh is a critical section per user: at most one
\* refresh of the user's credentials is in progress at a time, and once
\* every operation has returned the stored access token is the one issued
\* by the last refresh.
C24_RefreshIsCriticalSection ==
    /\ Cardinality(Refreshing) <= 1
    /\ (/\ \A t \in Threads : tk_pc[t] \in {"done", "failed"}
        /\ tk_issued # ExpiredToken) => tk_stored = tk_issued

----------------------------------------------------------------------------
(* Specification SpecRelay: the notification relay, approve_event and       *)
(* deny_event of backend/src/app.py ("src_app") and backend/app.py ("app"), *)
(* and create_calendar_event of backend/src/utils/calendar_handler.py       *)
(* called with a validated candidate ("direct")                            *)

RelayVariants == {"src_app", "app"}

\* number of requests for the one event_id of the model
MaxRequests == 3

\* the candidates a detection hands on: validate_schedule_info of a timed and
\* of an all-day meeting of tomorrow
RelayCandidates ==
    { validate_schedule_info(
          [title |-> "kaigi", start |-> At(Today + 1, 15, 0),
           end |-> At(Today + 1, 16, 0), is_all_day |-> a, desc_len |-> 0,
           confidence |-> 800],
          At(Today, 10, 0)) : a \in BOOLEAN }

\* request.get_json() returned None, or the key event:<event_id> is missing
NoData ==
    [present |-> FALSE, user_id |-> FALSE, event_data |-> FALSE,
     si |-> EmptyDict, iso |-> FALSE]

\* a dict decoded from JSON: it has "user_id" or not, "event_data" or not, and
\* its start_datetime and end_datetime are the strings isoformat() wrote
JsonData ==
    { [present |-> TRUE, user_id |-> u, event_data |-> e, si |-> c,
       iso |-> TRUE] :
          u \in BOOLEAN, e \in BOOLEAN, c \in RelayCandidates }

\* the schedule_info a handler passes to create_calendar_event itself: its
\* start_datetime and end_datetime are datetime objects
DirectData ==
    { [present |-> TRUE, user_id |-> TRUE, event_data |-> TRUE, si |-> c,
       iso |-> FALSE] : c \in RelayCandidates }

\* variant of HasDatetimes: ISO strings are read as datetimes
HasDatetimesParsed(data) == TRUE

\* start_dt.tzinfo and end_dt.tzinfo: a str has no attribute tzinfo
HasDatetimes(data) == ~data.iso

\* event_body['start'] and event_body['end'] of create_calendar_event: dates
\* for an all-day event, times for a timed one
EventBody(si) ==
    IF si.is_all_day
    THEN [kind |-> "date", start |-> DateOf(si.start),
          end |-> DateOf(si.end) + 1]
    ELSE [kind |-> "dateTime", start |-> si.start, end |-> si.end]

\* create_calendar_event: success of the pair it returns, and whether the
\* insert call put the event into the calendar; service_ok = get_calendar_
\* service returned a service, insert_ok = the insert succeeds within the
\* three attempts
create_calendar_event(data, service_ok, insert_ok) ==
    IF ~service_ok THEN [success |-> FALSE, inserted |-> FALSE]
    ELSE IF ~HasDatetimes(data) THEN [success |-> FALSE, inserted |-> FALSE]
    ELSE [success |-> insert_ok, inserted |-> insert_ok]

\* the calendar after create_calendar_event ran
AfterCreate(cal, data, service_ok, insert_ok) ==
    IF create_calendar_event(data, service_ok, insert_ok).inserted
    THEN Append(cal, [cand |-> data.si, body |-> EventBody(data.si)])
    ELSE cal

\* the response of a handler
Response(op, code, success) == [op |-> op, code |-> code, success |-> success]

InitRelay ==
    /\ rl_variant \in RelayVariants \cup {"direct"}
    /\ \/ /\ rl_variant \in RelayVariants
          /\ rl_redis \in BOOLEAN
          /\ rl_stored \in BOOLEAN
          /\ rl_stored => rl_redis
          /\ rl_event \in IF rl_stored THEN JsonData ELSE {NoData}
       \/ /\ rl_variant = "direct"
          /\ rl_redis = FALSE
          /\ rl_stored = FALSE
          /\ rl_event \in DirectData
    /\ rl_deleted = FALSE
    /\ rl_calendar = <<>>
    /\ rl_requests = 0
    /\ rl_status = Response("none", 0, FALSE)
    /\ FixIdle
    /\ PipeIdle
    /\ FlowIdle
    /\ CalIdle
    /\ SlotIdle
    /\ ErrIdle
    /\ RuleIdle
    /\ TokIdle

\* app.redis_client.delete(f"event:{event_id}")
DeleteKey ==
    /\ rl_stored' = FALSE
    /\ rl_deleted' = (rl_deleted \/ rl_stored)

\* approve_event of backend/src/app.py
ApproveSrcApp(body, service_ok, insert_ok, publish_ok) ==
    LET data == IF rl_redis /\ rl_stored THEN rl_event ELSE body
        made == create_calendar_event(data, service_ok, insert_ok)
    IN  IF ~data.present \/ ~data.user_id \/ ~data.event_data
        THEN /\ rl_status' = Response("approve", 400, FALSE)
             /\ UNCHANGED <<rl_stored, rl_deleted, rl_calendar>>
        ELSE /\ rl_calendar' =
                    AfterCreate(rl_calendar, data, service_ok, insert_ok)
             /\ IF rl_redis /\ publish_ok
                THEN DeleteKey
                ELSE UNCHANGED <<rl_stored, rl_deleted>>
             /\ rl_status' = Response("approve", 200, made.success)

\* approve_event of backend/app.py
ApproveApp(service_ok, insert_ok, publish_ok) ==
    LET made == create_calendar_event(rl_event, service_ok, insert_ok)
    IN  IF ~rl_redis
        THEN /\ rl_status' = Response("approve", 500, FALSE)
             /\ UNCHANGED <<rl_stored, rl_deleted, rl_calendar>>
        ELSE IF ~rl_stored
        THEN /\ rl_status' = Response("approve", 404, FALSE)
             /\ UNCHANGED <<rl_stored, rl_deleted, rl_calendar>>
        ELSE IF ~rl_event.user_id \/ ~rl_event.event_data
        THEN /\ rl_status' = Response("approve", 400, FALSE)
             /\ UNCHANGED <<rl_stored, rl_deleted, rl_calendar>>
        ELSE /\ rl_calendar' =
                    AfterCreate(rl_calendar, rl_event, service_ok, insert_ok)
             /\ IF publish_ok
                THEN /\ DeleteKey
                     /\ rl_status' = Response("approve", 200, made.success)
                ELSE /\ rl_status' = Response("approve", 500, FALSE)
                     /\ UNCHANGED <<rl_stored, rl_deleted>>

\* one approve request for the event_id
Approve(body, service_ok, insert_ok, publish_ok) ==
    /\ rl_variant \in RelayVariants
    /\ rl_requests < MaxRequests
    /\ rl_requests' = rl_requests + 1
    /\ IF rl_variant = "src_app"
       THEN ApproveSrcApp(body, service_ok, insert_ok, publish_ok)
       ELSE ApproveApp(service_ok, insert_ok, publish_ok)
    /\ UNCHANGED <<rl_variant, rl_redis, rl_event>>
    /\ UNCHANGED <<fixVars, pipeVars, flowVars, calVars, slotVars, errVars,
                   ruleVars, tokVars>>

\* one deny request for the event_id: deny_event of either file
Deny(body, publish_ok) ==
    /\ rl_variant \in RelayVariants
    /\ rl_requests < MaxRequests
    /\ rl_requests' = rl_requests + 1
    /\ LET data == IF rl_redis /\ rl_stored THEN rl_event ELSE body
       IN  IF rl_variant = "app" /\ ~rl_redis
           THEN /\ rl_status' = Response("deny", 500, FALSE)
                /\ UNCHANGED <<rl_stored, rl_deleted>>
           ELSE IF rl_variant = "app" /\ ~rl_stored
           THEN /\ rl_status' = Response("deny", 404, FALSE)
                /\ UNCHANGED <<rl_stored, rl_deleted>>
           ELSE IF ~data.present
           THEN /\ rl_status' = Response("deny", 400, FALSE)
                /\ UNCHANGED <<rl_stored, rl_deleted>>
           ELSE IF rl_redis /\ publish_ok
           THEN /\ DeleteKey
                /\ rl_status' = Response("deny", 200, FALSE)
           ELSE /\ rl_status' =
                       Response("deny", IF rl_variant = "app" THEN 500 ELSE 200,
                                FALSE)
                /\ UNCHANGED <<rl_stored, rl_deleted>>
    /\ UNCHANGED <<rl_variant, rl_redis, rl_event, rl_calendar>>
    /\ UNCHANGED <<fixVars, pipeVars, flowVars, calVars, slotVars, errVars,
                   ruleVars, tokVars>>

\* a handler calls create_calendar_event with the candidate itself
Register(service_ok, insert_ok) ==
    /\ rl_variant = "direct"
    /\ rl_requests < MaxRequests
    /\ rl_requests' = rl_requests + 1
    /\ rl_calendar' = AfterCreate(rl_calendar, rl_event, service_ok, insert_ok)
    /\ rl_status' =
           Response("create", 0,
                    create_calendar_event(rl_event, service_ok,
                                          insert_ok).success)
    /\ UNCHANGED <<rl_variant, rl_redis, rl_event, rl_stored, rl_deleted>>
    /\ UNCHANGED <<fixVars, pipeVars, flowVars, calVars, slotVars, errVars,
                   ruleVars, tokVars>>

NextRelay ==
    \/ \E body \in {NoData} \cup JsonData, s, i, p \in BOOLEAN :
           Approve(body, s, i, p)
    \/ \E body \in {NoData} \cup JsonData, p \in BOOLEAN : Deny(body, p)
    \/ \E s, i \in BOOLEAN : Register(s, i)

SpecRelay == InitRelay /\ [][NextRelay]_vars

----------------------------------------------------------------------------
(* C29, C30 *)

C30_AllDayCoversOneDate ==
    \A k \in 1 .. Len(rl_calendar) :
        (/\ rl_calendar[k].cand.is_all_day
         /\ rl_calendar[k].cand.end = rl_calendar[k].cand.start + MinPerDay) =>
            /\ rl_calendar[k].body.kind = "date"
            /\ rl_calendar[k].body.start = DateOf(rl_calendar[k].cand.start)
            /\ rl_calendar[k].body.end = rl_calendar[k].body.start + 1

====
